---- MODULE Spec2Model ----
(***************************************************************************)
(* Model of the edge renderers of user32 (windows/draw.c): DrawEdge,        *)
(* IntDrawRectEdge and IntDrawDiagEdge, with the colour tables they share.  *)
(*                                                                         *)
(* A device context is modelled by the part of its state the renderers      *)
(* touch: the selected pen and brush, the current position and the DC pen   *)
(* and DC brush colours.  A renderer is modelled by the sequence of GDI     *)
(* calls it issues, in source order; Exec runs that sequence on the device  *)
(* context and records every primitive that reaches the surface.           *)
(***************************************************************************)
EXTENDS Integers, Sequences, FiniteSets, TLC

VARIABLES rc, rc0, uType, uFlags, dc, gdi, drawn, retval, ncalls, failed, gray,
          ctx, glLast

vars == <<rc, rc0, uType, uFlags, dc, gdi, drawn, retval, ncalls, failed, gray,
          ctx, glLast>>

---------------------------------------------------------------------------
(* Bounds of the model *)

\* style codes range over 0..MaxType: all 4-bit codes and one bit above them
MaxType == 31
\* number of successive DrawEdge calls on the same rectangle
MaxCalls == 2

\* the calls of GrayStringA and GrayStringW made on one device context
MaxGrayCalls == 2

\* the calls of the blend state setters made on one context
MaxGLCalls == 3

---------------------------------------------------------------------------
(* System colour indices and border style bits *)

COLOR_WINDOW == 5
COLOR_WINDOWFRAME == 6
COLOR_BTNFACE == 15
COLOR_BTNSHADOW == 16
COLOR_BTNHIGHLIGHT == 20
COLOR_3DDKSHADOW == 21
COLOR_3DLIGHT == 22

\* table entry meaning "no line"
NoLine == -1

BDR_OUTER == 3
BDR_INNER == 12

\* the C operator & on non-negative integers
RECURSIVE BitAnd(_, _)
BitAnd(a, b) ==
    IF a = 0 \/ b = 0 THEN 0
    ELSE (IF a % 2 = 1 /\ b % 2 = 1 THEN 1 ELSE 0) + 2 * BitAnd(a \div 2, b \div 2)

\* the C operator | on non-negative integers
BitOr(a, b) == a + b - BitAnd(a, b)

---------------------------------------------------------------------------
(* Edge flags: uFlags is the set of the BF_ bits that are set *)

BF_LEFT == "BF_LEFT"
BF_TOP == "BF_TOP"
BF_RIGHT == "BF_RIGHT"
BF_BOTTOM == "BF_BOTTOM"
BF_DIAGONAL == "BF_DIAGONAL"
BF_MIDDLE == "BF_MIDDLE"
BF_SOFT == "BF_SOFT"
BF_ADJUST == "BF_ADJUST"
BF_FLAT == "BF_FLAT"
BF_MONO == "BF_MONO"

BF_TOPLEFT == {BF_TOP, BF_LEFT}
BF_TOPRIGHT == {BF_TOP, BF_RIGHT}
BF_BOTTOMLEFT == {BF_BOTTOM, BF_LEFT}
BF_BOTTOMRIGHT == {BF_BOTTOM, BF_RIGHT}
BF_RECT == {BF_LEFT, BF_TOP, BF_RIGHT, BF_BOTTOM}

AllFlags == BF_RECT \cup {BF_DIAGONAL, BF_MIDDLE, BF_SOFT, BF_ADJUST, BF_FLAT, BF_MONO}

---------------------------------------------------------------------------
(* Colour tables, indexed by uType & (BDR_INNER|BDR_OUTER) *)

LTInnerNormal == <<
    NoLine, NoLine,             NoLine,             NoLine,
    NoLine, COLOR_BTNHIGHLIGHT, COLOR_BTNHIGHLIGHT, NoLine,
    NoLine, COLOR_3DDKSHADOW,   COLOR_3DDKSHADOW,   NoLine,
    NoLine, NoLine,             NoLine,             NoLine >>

LTOuterNormal == <<
    NoLine,             COLOR_3DLIGHT, COLOR_BTNSHADOW, NoLine,
    COLOR_BTNHIGHLIGHT, COLOR_3DLIGHT, COLOR_BTNSHADOW, NoLine,
    COLOR_3DDKSHADOW,   COLOR_3DLIGHT, COLOR_BTNSHADOW, NoLine,
    NoLine,             COLOR_3DLIGHT, COLOR_BTNSHADOW, NoLine >>

RBInnerNormal == <<
    NoLine, NoLine,          NoLine,          NoLine,
    NoLine, COLOR_BTNSHADOW, COLOR_BTNSHADOW, NoLine,
    NoLine, COLOR_3DLIGHT,   COLOR_3DLIGHT,   NoLine,
    NoLine, NoLine,          NoLine,          NoLine >>

RBOuterNormal == <<
    NoLine,          COLOR_3DDKSHADOW, COLOR_BTNHIGHLIGHT, NoLine,
    COLOR_BTNSHADOW, COLOR_3DDKSHADOW, COLOR_BTNHIGHLIGHT, NoLine,
    COLOR_3DLIGHT,   COLOR_3DDKSHADOW, COLOR_BTNHIGHLIGHT, NoLine,
    NoLine,          COLOR_3DDKSHADOW, COLOR_BTNHIGHLIGHT, NoLine >>

LTInnerSoft == <<
    NoLine, NoLine,          NoLine,          NoLine,
    NoLine, COLOR_3DLIGHT,   COLOR_3DLIGHT,   NoLine,
    NoLine, COLOR_BTNSHADOW, COLOR_BTNSHADOW, NoLine,
    NoLine, NoLine,          NoLine,          NoLine >>

LTOuterSoft == <<
    NoLine,          COLOR_BTNHIGHLIGHT, COLOR_3DDKSHADOW, NoLine,
    COLOR_3DLIGHT,   COLOR_BTNHIGHLIGHT, COLOR_3DDKSHADOW, NoLine,
    COLOR_BTNSHADOW, COLOR_BTNHIGHLIGHT, COLOR_3DDKSHADOW, NoLine,
    NoLine,          COLOR_BTNHIGHLIGHT, COLOR_3DDKSHADOW, NoLine >>

RBInnerSoft == RBInnerNormal

RBOuterSoft == RBOuterNormal

LTRBOuterMono == <<
    NoLine,       COLOR_WINDOWFRAME, COLOR_WINDOWFRAME, COLOR_WINDOWFRAME,
    COLOR_WINDOW, COLOR_WINDOWFRAME, COLOR_WINDOWFRAME, COLOR_WINDOWFRAME,
    COLOR_WINDOW, COLOR_WINDOWFRAME, COLOR_WINDOWFRAME, COLOR_WINDOWFRAME,
    COLOR_WINDOW, COLOR_WINDOWFRAME, COLOR_WINDOWFRAME, COLOR_WINDOWFRAME >>

LTRBInnerMono == <<
    NoLine, NoLine,       NoLine,       NoLine,
    NoLine, COLOR_WINDOW, COLOR_WINDOW, COLOR_WINDOW,
    NoLine, COLOR_WINDOW, COLOR_WINDOW, COLOR_WINDOW,
    NoLine, COLOR_WINDOW, COLOR_WINDOW, COLOR_WINDOW >>

LTRBOuterFlat == <<
    NoLine,        COLOR_BTNSHADOW, COLOR_BTNSHADOW, COLOR_BTNSHADOW,
    COLOR_BTNFACE, COLOR_BTNSHADOW, COLOR_BTNSHADOW, COLOR_BTNSHADOW,
    COLOR_BTNFACE, COLOR_BTNSHADOW, COLOR_BTNSHADOW, COLOR_BTNSHADOW,
    COLOR_BTNFACE, COLOR_BTNSHADOW, COLOR_BTNSHADOW, COLOR_BTNSHADOW >>

LTRBInnerFlat == <<
    NoLine, NoLine,        NoLine,        NoLine,
    NoLine, COLOR_BTNFACE, COLOR_BTNFACE, COLOR_BTNFACE,
    NoLine, COLOR_BTNFACE, COLOR_BTNFACE, COLOR_BTNFACE,
    NoLine, COLOR_BTNFACE, COLOR_BTNFACE, COLOR_BTNFACE >>

\* mutant of TableIndex: the style code indexes the tables unmasked
TableIndexNoMask(type) == type

\* the index expression uType & (BDR_INNER|BDR_OUTER) used for every table
TableIndex(type) == BitAnd(type, BitOr(BDR_INNER, BDR_OUTER))

\* what a read outside a table is reported as (no table holds this value)
OutOfRange == NoLine - 1

\* table[i] of a C array (0-based)
At(table, i) == IF i >= 0 /\ i < Len(table) THEN table[i + 1] ELSE OutOfRange

---------------------------------------------------------------------------
(* Rectangles and points *)

Rect(l, t, r, b) == [left |-> l, top |-> t, right |-> r, bottom |-> b]

Pt(px, py) == [x |-> px, y |-> py]

---------------------------------------------------------------------------
(* Validity of a (style, flags) combination: the value a renderer returns *)

\* mutant of Retval: the tests "== BDR_INNER" and "== BDR_OUTER" are dropped,
\* so any inner or outer bit makes the combination invalid
RetvalAnyBit(type, flags) ==
    ~ (   (BitAnd(type, BDR_INNER) # 0 \/ BitAnd(type, BDR_OUTER) # 0)
       /\ flags \cap {BF_FLAT, BF_MONO} = {} )

\* mutant of Retval: only the inner pair of bits is tested
RetvalInnerOnly(type, flags) ==
    ~ (   BitAnd(type, BDR_INNER) = BDR_INNER
       /\ flags \cap {BF_FLAT, BF_MONO} = {} )

\* retval of IntDrawRectEdge
Retval(type, flags) ==
    ~ (   (   BitAnd(type, BDR_INNER) = BDR_INNER
           \/ BitAnd(type, BDR_OUTER) = BDR_OUTER)
       /\ flags \cap {BF_FLAT, BF_MONO} = {} )

\* mutant of DiagRetval: only BF_MONO makes an invalid style valid
DiagRetvalMonoOnly(type, flags) ==
    ~ (   (   BitAnd(type, BDR_INNER) = BDR_INNER
           \/ BitAnd(type, BDR_OUTER) = BDR_OUTER)
       /\ BF_MONO \notin flags )

\* retval of IntDrawDiagEdge, which has its own copy of the expression
DiagRetval(type, flags) ==
    ~ (   (   BitAnd(type, BDR_INNER) = BDR_INNER
           \/ BitAnd(type, BDR_OUTER) = BDR_OUTER)
       /\ flags \cap {BF_FLAT, BF_MONO} = {} )

\* mutant of Add: the inner line is left out of the width
AddOuterOnly(type) ==
    IF At(LTRBOuterMono, TableIndex(type)) # NoLine THEN 1 ELSE 0

\* mutant of Add: the width is taken from the normal tables
AddFromNormal(type) ==
      (IF At(LTInnerNormal, TableIndex(type)) # NoLine THEN 1 ELSE 0)
    + (IF At(LTOuterNormal, TableIndex(type)) # NoLine THEN 1 ELSE 0)

\* the width of the border, taken from the Mono tables
Add(type) ==
      (IF At(LTRBInnerMono, TableIndex(type)) # NoLine THEN 1 ELSE 0)
    + (IF At(LTRBOuterMono, TableIndex(type)) # NoLine THEN 1 ELSE 0)

---------------------------------------------------------------------------
(* Colours of the edges *)

\* mutant of RectColors: BF_FLAT is tested before BF_MONO
RectColorsFlatFirst(type, flags) ==
    LET i == TableIndex(type) IN
    IF BF_FLAT \in flags THEN
        LET inner == IF At(LTRBInnerFlat, i) # NoLine THEN COLOR_BTNFACE
                     ELSE At(LTRBInnerFlat, i) IN
        [LTInnerI |-> inner, RBInnerI |-> inner,
         LTOuterI |-> At(LTRBOuterFlat, i), RBOuterI |-> At(LTRBOuterFlat, i)]
    ELSE IF BF_MONO \in flags THEN
        [LTInnerI |-> At(LTRBInnerMono, i), RBInnerI |-> At(LTRBInnerMono, i),
         LTOuterI |-> At(LTRBOuterMono, i), RBOuterI |-> At(LTRBOuterMono, i)]
    ELSE IF BF_SOFT \in flags THEN
        [LTInnerI |-> At(LTInnerSoft, i), LTOuterI |-> At(LTOuterSoft, i),
         RBInnerI |-> At(RBInnerSoft, i), RBOuterI |-> At(RBOuterSoft, i)]
    ELSE
        [LTInnerI |-> At(LTInnerNormal, i), LTOuterI |-> At(LTOuterNormal, i),
         RBInnerI |-> At(RBInnerNormal, i), RBOuterI |-> At(RBOuterNormal, i)]

\* mutant of RectColors: under BF_FLAT the inner colour is forced to the face
\* colour when the table entry is -1 instead of when it is not
RectColorsFlatInverted(type, flags) ==
    LET i == TableIndex(type) IN
    IF BF_MONO \in flags THEN
        [LTInnerI |-> At(LTRBInnerMono, i), RBInnerI |-> At(LTRBInnerMono, i),
         LTOuterI |-> At(LTRBOuterMono, i), RBOuterI |-> At(LTRBOuterMono, i)]
    ELSE IF BF_FLAT \in flags THEN
        LET inner == IF At(LTRBInnerFlat, i) = NoLine THEN COLOR_BTNFACE
                     ELSE At(LTRBInnerFlat, i) IN
        [LTInnerI |-> inner, RBInnerI |-> inner,
         LTOuterI |-> At(LTRBOuterFlat, i), RBOuterI |-> At(LTRBOuterFlat, i)]
    ELSE IF BF_SOFT \in flags THEN
        [LTInnerI |-> At(LTInnerSoft, i), LTOuterI |-> At(LTOuterSoft, i),
         RBInnerI |-> At(RBInnerSoft, i), RBOuterI |-> At(RBOuterSoft, i)]
    ELSE
        [LTInnerI |-> At(LTInnerNormal, i), LTOuterI |-> At(LTOuterNormal, i),
         RBInnerI |-> At(RBInnerNormal, i), RBOuterI |-> At(RBOuterNormal, i)]

\* mutant of RectColors: BF_SOFT is not tested, the normal tables are used
RectColorsNoSoft(type, flags) ==
    LET i == TableIndex(type) IN
    IF BF_MONO \in flags THEN
        [LTInnerI |-> At(LTRBInnerMono, i), RBInnerI |-> At(LTRBInnerMono, i),
         LTOuterI |-> At(LTRBOuterMono, i), RBOuterI |-> At(LTRBOuterMono, i)]
    ELSE IF BF_FLAT \in flags THEN
        LET inner == IF At(LTRBInnerFlat, i) # NoLine THEN COLOR_BTNFACE
                     ELSE At(LTRBInnerFlat, i) IN
        [LTInnerI |-> inner, RBInnerI |-> inner,
         LTOuterI |-> At(LTRBOuterFlat, i), RBOuterI |-> At(LTRBOuterFlat, i)]
    ELSE
        [LTInnerI |-> At(LTInnerNormal, i), LTOuterI |-> At(LTOuterNormal, i),
         RBInnerI |-> At(RBInnerNormal, i), RBOuterI |-> At(RBOuterNormal, i)]

\* IntDrawRectEdge: "Determine the colors of the edges"
RectColors(type, flags) ==
    LET i == TableIndex(type) IN
    IF BF_MONO \in flags THEN
        [LTInnerI |-> At(LTRBInnerMono, i), RBInnerI |-> At(LTRBInnerMono, i),
         LTOuterI |-> At(LTRBOuterMono, i), RBOuterI |-> At(LTRBOuterMono, i)]
    ELSE IF BF_FLAT \in flags THEN
        LET inner == IF At(LTRBInnerFlat, i) # NoLine THEN COLOR_BTNFACE
                     ELSE At(LTRBInnerFlat, i) IN
        [LTInnerI |-> inner, RBInnerI |-> inner,
         LTOuterI |-> At(LTRBOuterFlat, i), RBOuterI |-> At(LTRBOuterFlat, i)]
    ELSE IF BF_SOFT \in flags THEN
        [LTInnerI |-> At(LTInnerSoft, i), LTOuterI |-> At(LTOuterSoft, i),
         RBInnerI |-> At(RBInnerSoft, i), RBOuterI |-> At(RBOuterSoft, i)]
    ELSE
        [LTInnerI |-> At(LTInnerNormal, i), LTOuterI |-> At(LTOuterNormal, i),
         RBInnerI |-> At(RBInnerNormal, i), RBOuterI |-> At(RBOuterNormal, i)]

\* mutant of DiagColors: under Soft the right side also selects the
\* bottom-right tables
DiagColorsSoftRight(type, flags) ==
    LET i == TableIndex(type) IN
    IF BF_MONO \in flags THEN
        [InnerI |-> At(LTRBInnerMono, i), OuterI |-> At(LTRBOuterMono, i)]
    ELSE IF BF_FLAT \in flags THEN
        [InnerI |-> At(LTRBInnerFlat, i), OuterI |-> At(LTRBOuterFlat, i)]
    ELSE IF BF_SOFT \in flags THEN
        IF BF_BOTTOM \in flags \/ BF_RIGHT \in flags
        THEN [InnerI |-> At(RBInnerSoft, i), OuterI |-> At(RBOuterSoft, i)]
        ELSE [InnerI |-> At(LTInnerSoft, i), OuterI |-> At(LTOuterSoft, i)]
    ELSE
        IF BF_BOTTOM \in flags
        THEN [InnerI |-> At(RBInnerNormal, i), OuterI |-> At(RBOuterNormal, i)]
        ELSE [InnerI |-> At(LTInnerNormal, i), OuterI |-> At(LTOuterNormal, i)]

\* IntDrawDiagEdge: "Determine the colors of the edges"
DiagColors(type, flags) ==
    LET i == TableIndex(type) IN
    IF BF_MONO \in flags THEN
        [InnerI |-> At(LTRBInnerMono, i), OuterI |-> At(LTRBOuterMono, i)]
    ELSE IF BF_FLAT \in flags THEN
        [InnerI |-> At(LTRBInnerFlat, i), OuterI |-> At(LTRBOuterFlat, i)]
    ELSE IF BF_SOFT \in flags THEN
        IF BF_BOTTOM \in flags
        THEN [InnerI |-> At(RBInnerSoft, i), OuterI |-> At(RBOuterSoft, i)]
        ELSE [InnerI |-> At(LTInnerSoft, i), OuterI |-> At(LTOuterSoft, i)]
    ELSE
        IF BF_BOTTOM \in flags
        THEN [InnerI |-> At(RBInnerNormal, i), OuterI |-> At(RBOuterNormal, i)]
        ELSE [InnerI |-> At(LTInnerNormal, i), OuterI |-> At(LTOuterNormal, i)]

\* mutant of PenFor: the test of the omit value is inverted
PenForInverted(i) == IF i = NoLine THEN "DC_PEN" ELSE "NULL_PEN"

\* the pen a renderer keeps for a line of colour index i
PenFor(i) == IF i # NoLine THEN "DC_PEN" ELSE "NULL_PEN"

---------------------------------------------------------------------------
(* GDI calls of a renderer, and their effect on the device context *)

SelectObject(k, o) == [f |-> "SelectObject", kind |-> k, obj |-> o]

\* SetDCPenColor(hdc, GetSysColor(i))
SetDCPenColor(i) == [f |-> "SetDCPenColor", color |-> i]

\* SetDCBrushColor(hdc, GetSysColor(i))
SetDCBrushColor(i) == [f |-> "SetDCBrushColor", color |-> i]

MoveToEx(px, py) == [f |-> "MoveToEx", x |-> px, y |-> py]

LineTo(px, py) == [f |-> "LineTo", x |-> px, y |-> py]

\* FillRect(hdc, &r, GetSysColorBrush(i))
FillRect(r, i) == [f |-> "FillRect", rect |-> r, color |-> i]

Polygon(pts) == [f |-> "Polygon", points |-> pts]

\* one GDI call on the state st = [dc, out]: the device context after it, and
\* the primitives sent to the surface so far
GdiStep(st, call) ==
    CASE call.f = "SelectObject" ->
            IF call.kind = "pen"
            THEN [st EXCEPT !.dc.pen = call.obj]
            ELSE [st EXCEPT !.dc.brush = call.obj]
      [] call.f = "SetDCPenColor" -> [st EXCEPT !.dc.penColor = call.color]
      [] call.f = "SetDCBrushColor" -> [st EXCEPT !.dc.brushColor = call.color]
      [] call.f = "MoveToEx" -> [st EXCEPT !.dc.pos = Pt(call.x, call.y)]
      [] call.f = "LineTo" ->
            [dc |-> [st.dc EXCEPT !.pos = Pt(call.x, call.y)],
             out |-> Append(st.out,
                        [op |-> "LineTo", from |-> st.dc.pos, to |-> Pt(call.x, call.y),
                         pen |-> st.dc.pen, color |-> st.dc.penColor])]
      [] call.f = "FillRect" ->
            [st EXCEPT !.out = Append(st.out,
                        [op |-> "FillRect", rect |-> call.rect, color |-> call.color])]
      [] call.f = "Polygon" ->
            [st EXCEPT !.out = Append(st.out,
                        [op |-> "Polygon", points |-> call.points,
                         pen |-> st.dc.pen, color |-> st.dc.penColor,
                         brush |-> st.dc.brush, brushColor |-> st.dc.brushColor])]

RECURSIVE GdiRun(_, _)
GdiRun(st, calls) ==
    IF calls = <<>> THEN st ELSE GdiRun(GdiStep(st, Head(calls)), Tail(calls))

\* the calls run on the device context hdc
Exec(hdc, calls) == GdiRun([dc |-> hdc, out |-> <<>>], calls)

\* the calls s when the C condition c holds
When(c, s) == IF c THEN s ELSE <<>>

---------------------------------------------------------------------------
(* IntDrawRectEdge: DrawEdge without BF_DIAGONAL *)

\* mutant of Penplus: a corner is cut whether or not both its sides are drawn
PenplusAlways(flags) ==
    [LB |-> 1, RT |-> 1, RB |-> 1, LT |-> 1]

\* the corner adjustments LBpenplus, LTpenplus, RTpenplus, RBpenplus
Penplus(flags) ==
    [LB |-> IF BF_BOTTOMLEFT \subseteq flags THEN 1 ELSE 0,
     RT |-> IF BF_TOPRIGHT \subseteq flags THEN 1 ELSE 0,
     RB |-> IF BF_BOTTOMRIGHT \subseteq flags THEN 1 ELSE 0,
     LT |-> IF BF_TOPLEFT \subseteq flags THEN 1 ELSE 0]

\* "Init some vars": the NULL_PEN is selected, SavePen keeps the caller's pen
RectInitCalls == <<SelectObject("pen", "NULL_PEN")>>

\* mutant of RectFillCalls: the fill is made whenever BF_MIDDLE is set,
\* whatever the return value
RectFillCallsUnguarded(r, type, flags) ==
    LET InnerRect == r IN
    When(BF_MIDDLE \in flags,
         <<FillRect(InnerRect, IF BF_MONO \in flags THEN COLOR_WINDOW ELSE COLOR_BTNFACE)>>)

\* the fill of BF_MIDDLE, made on InnerRect = *rc as it is on entry
RectFillCalls(r, type, flags) ==
    LET InnerRect == r IN
    When(BF_MIDDLE \in flags /\ Retval(type, flags),
         <<FillRect(InnerRect, IF BF_MONO \in flags THEN COLOR_WINDOW ELSE COLOR_BTNFACE)>>)

\* MoveToEx(hdc, 0, 0, &SavePoint)
RectSavePointCalls == <<MoveToEx(0, 0)>>

\* mutant of RectOuterCalls: the bottom and the right line are drawn on the
\* row bottom and the column right, which lie outside the rectangle
RectOuterCallsOutside(r, type, flags) ==
    LET c == RectColors(type, flags)
        InnerRect == r
        LTOuterPen == PenFor(c.LTOuterI)
        RBOuterPen == PenFor(c.RBOuterI)
    IN
       <<SelectObject("pen", LTOuterPen), SetDCPenColor(c.LTOuterI)>>
    \o When(BF_TOP \in flags,
            <<MoveToEx(InnerRect.left, InnerRect.top),
              LineTo(InnerRect.right, InnerRect.top)>>)
    \o When(BF_LEFT \in flags,
            <<MoveToEx(InnerRect.left, InnerRect.top),
              LineTo(InnerRect.left, InnerRect.bottom)>>)
    \o <<SelectObject("pen", RBOuterPen), SetDCPenColor(c.RBOuterI)>>
    \o When(BF_BOTTOM \in flags,
            <<MoveToEx(InnerRect.left, InnerRect.bottom),
              LineTo(InnerRect.right, InnerRect.bottom)>>)
    \o When(BF_RIGHT \in flags,
            <<MoveToEx(InnerRect.right, InnerRect.top),
              LineTo(InnerRect.right, InnerRect.bottom)>>)

\* "Draw the outer edge"
RectOuterCalls(r, type, flags) ==
    LET c == RectColors(type, flags)
        InnerRect == r
        LTOuterPen == PenFor(c.LTOuterI)
        RBOuterPen == PenFor(c.RBOuterI)
    IN
       <<SelectObject("pen", LTOuterPen), SetDCPenColor(c.LTOuterI)>>
    \o When(BF_TOP \in flags,
            <<MoveToEx(InnerRect.left, InnerRect.top),
              LineTo(InnerRect.right, InnerRect.top)>>)
    \o When(BF_LEFT \in flags,
            <<MoveToEx(InnerRect.left, InnerRect.top),
              LineTo(InnerRect.left, InnerRect.bottom)>>)
    \o <<SelectObject("pen", RBOuterPen), SetDCPenColor(c.RBOuterI)>>
    \o When(BF_BOTTOM \in flags,
            <<MoveToEx(InnerRect.left, InnerRect.bottom - 1),
              LineTo(InnerRect.right, InnerRect.bottom - 1)>>)
    \o When(BF_RIGHT \in flags,
            <<MoveToEx(InnerRect.right - 1, InnerRect.top),
              LineTo(InnerRect.right - 1, InnerRect.bottom)>>)

\* "Draw the inner edge"
RectInnerCalls(r, type, flags) ==
    LET c == RectColors(type, flags)
        InnerRect == r
        pp == Penplus(flags)
        LTInnerPen == PenFor(c.LTInnerI)
        RBInnerPen == PenFor(c.RBInnerI)
    IN
       <<SelectObject("pen", LTInnerPen), SetDCPenColor(c.LTInnerI)>>
    \o When(BF_TOP \in flags,
            <<MoveToEx(InnerRect.left + pp.LT, InnerRect.top + 1),
              LineTo(InnerRect.right - pp.RT, InnerRect.top + 1)>>)
    \o When(BF_LEFT \in flags,
            <<MoveToEx(InnerRect.left + 1, InnerRect.top + pp.LT),
              LineTo(InnerRect.left + 1, InnerRect.bottom - pp.LB)>>)
    \o <<SelectObject("pen", RBInnerPen), SetDCPenColor(c.RBInnerI)>>
    \o When(BF_BOTTOM \in flags,
            <<MoveToEx(InnerRect.left + pp.LB, InnerRect.bottom - 2),
              LineTo(InnerRect.right - pp.RB, InnerRect.bottom - 2)>>)
    \o When(BF_RIGHT \in flags,
            <<MoveToEx(InnerRect.right - 2, InnerRect.top + pp.RT),
              LineTo(InnerRect.right - 2, InnerRect.bottom - pp.RB)>>)

\* mutant of CleanupCalls: the position is put back, the caller's pen is not
CleanupCallsNoPen(hdc) ==
    LET SavePoint == hdc.pos
    IN <<MoveToEx(SavePoint.x, SavePoint.y)>>

\* "Cleanup": the pen and the position saved on entry are put back
CleanupCalls(hdc) ==
    LET SavePen == hdc.pen
        SavePoint == hdc.pos
    IN <<SelectObject("pen", SavePen), MoveToEx(SavePoint.x, SavePoint.y)>>

\* mutant of IntDrawRectEdgeCalls: the fill of BF_MIDDLE comes after the lines
IntDrawRectEdgeCallsFillLast(hdc, r, type, flags) ==
       RectInitCalls
    \o RectSavePointCalls
    \o RectOuterCalls(r, type, flags)
    \o RectInnerCalls(r, type, flags)
    \o RectFillCalls(r, type, flags)
    \o CleanupCalls(hdc)

\* mutant of IntDrawRectEdgeCalls: the fill of BF_MIDDLE is made before the
\* lines and once more after them
IntDrawRectEdgeCallsRefill(hdc, r, type, flags) ==
       RectInitCalls
    \o RectFillCalls(r, type, flags)
    \o RectSavePointCalls
    \o RectOuterCalls(r, type, flags)
    \o RectInnerCalls(r, type, flags)
    \o RectFillCalls(r, type, flags)
    \o CleanupCalls(hdc)

\* mutant of IntDrawRectEdgeCalls: the inner edge is drawn before the outer edge
IntDrawRectEdgeCallsInnerFirst(hdc, r, type, flags) ==
       RectInitCalls
    \o RectFillCalls(r, type, flags)
    \o RectSavePointCalls
    \o RectInnerCalls(r, type, flags)
    \o RectOuterCalls(r, type, flags)
    \o CleanupCalls(hdc)

\* the GDI calls of IntDrawRectEdge(hdc, &r, type, flags), in source order
IntDrawRectEdgeCalls(hdc, r, type, flags) ==
       RectInitCalls
    \o RectFillCalls(r, type, flags)
    \o RectSavePointCalls
    \o RectOuterCalls(r, type, flags)
    \o RectInnerCalls(r, type, flags)
    \o CleanupCalls(hdc)

\* mutant of Shrink: a side is not moved past the opposite side
ShrinkClamped(r, flags, add) ==
    LET w == r.right - r.left
        h == r.bottom - r.top
        n(a, b) == (IF a \in flags THEN add ELSE 0) + (IF b \in flags THEN add ELSE 0)
        okx == w >= n(BF_LEFT, BF_RIGHT)
        oky == h >= n(BF_TOP, BF_BOTTOM)
    IN
    [left   |-> IF BF_LEFT \in flags /\ okx THEN r.left + add ELSE r.left,
     right  |-> IF BF_RIGHT \in flags /\ okx THEN r.right - add ELSE r.right,
     top    |-> IF BF_TOP \in flags /\ oky THEN r.top + add ELSE r.top,
     bottom |-> IF BF_BOTTOM \in flags /\ oky THEN r.bottom - add ELSE r.bottom]

\* r with each side that is in flags moved inward by add
Shrink(r, flags, add) ==
    [left   |-> IF BF_LEFT \in flags THEN r.left + add ELSE r.left,
     right  |-> IF BF_RIGHT \in flags THEN r.right - add ELSE r.right,
     top    |-> IF BF_TOP \in flags THEN r.top + add ELSE r.top,
     bottom |-> IF BF_BOTTOM \in flags THEN r.bottom - add ELSE r.bottom]

\* mutant of IntDrawRectEdgeRect: InnerRect is written back without the test
\* of BF_ADJUST
IntDrawRectEdgeRectWriteBack(r, type, flags) ==
    LET InnerRect == r IN
    IF (BF_MIDDLE \in flags /\ Retval(type, flags)) \/ BF_ADJUST \in flags
    THEN Shrink(InnerRect, flags, Add(type))
    ELSE r

\* *rc on return from IntDrawRectEdge(hdc, &r, type, flags)
IntDrawRectEdgeRect(r, type, flags) ==
    LET InnerRect == r IN
    IF (BF_MIDDLE \in flags /\ Retval(type, flags)) \/ BF_ADJUST \in flags
    THEN IF BF_ADJUST \in flags THEN Shrink(InnerRect, flags, Add(type)) ELSE r
    ELSE r

---------------------------------------------------------------------------
(* IntDrawDiagEdge: DrawEdge with BF_DIAGONAL *)

\* the side of the largest square that fits the rectangle
SmallDiam(r) ==
    LET Width == r.right - r.left
        Height == r.bottom - r.top
    IN IF Width > Height THEN Height ELSE Width

\* mutant of LeftBottomEndpoint: the line ends on the left edge, not left of it
LeftBottomEndpointOnEdge(r) ==
    [epx |-> r.left, spx |-> r.left + SmallDiam(r),
     epy |-> r.bottom, spy |-> r.bottom - SmallDiam(r), assigned |-> TRUE]

\* "Left bottom endpoint"
LeftBottomEndpoint(r) ==
    [epx |-> r.left - 1, spx |-> r.left - 1 + SmallDiam(r),
     epy |-> r.bottom, spy |-> r.bottom - SmallDiam(r), assigned |-> TRUE]

\* "Left top endpoint"
LeftTopEndpoint(r) ==
    [epx |-> r.left - 1, spx |-> r.left - 1 + SmallDiam(r),
     epy |-> r.top - 1, spy |-> r.top - 1 + SmallDiam(r), assigned |-> TRUE]

\* "Right top endpoint"
RightTopEndpoint(r) ==
    [spx |-> r.left, epx |-> r.left + SmallDiam(r),
     spy |-> r.bottom - 1, epy |-> r.bottom - 1 - SmallDiam(r), assigned |-> TRUE]

\* mutant of DiagEnds: the first switch has no case for BF_BOTTOM|BF_TOP and
\* for BF_RECT
DiagEndsTwoCasesShort(r, flags) ==
    LET side == flags \cap BF_RECT IN
    IF side \in {{}, {BF_LEFT}, {BF_BOTTOM}, BF_BOTTOMLEFT} THEN
        LeftBottomEndpoint(r)
    ELSE IF side \in {BF_TOPLEFT, BF_BOTTOMRIGHT} THEN
        LeftTopEndpoint(r)
    ELSE IF side \in {{BF_TOP}, {BF_RIGHT}, BF_TOPRIGHT, {BF_RIGHT, BF_LEFT},
                      {BF_RIGHT, BF_LEFT, BF_TOP},
                      {BF_BOTTOM, BF_TOP, BF_LEFT}, BF_BOTTOMRIGHT \cup {BF_LEFT},
                      BF_BOTTOMRIGHT \cup {BF_TOP}} THEN
        RightTopEndpoint(r)
    ELSE
        [spx |-> 0, spy |-> 0, epx |-> 0, epy |-> 0, assigned |-> FALSE]

\* the first switch, on uFlags & BF_RECT: start and end point of the outer line
DiagEnds(r, flags) ==
    LET side == flags \cap BF_RECT IN
    IF side \in {{}, {BF_LEFT}, {BF_BOTTOM}, BF_BOTTOMLEFT} THEN
        LeftBottomEndpoint(r)
    ELSE IF side \in {BF_TOPLEFT, BF_BOTTOMRIGHT} THEN
        LeftTopEndpoint(r)
    ELSE IF side \in {{BF_TOP}, {BF_RIGHT}, BF_TOPRIGHT, {BF_RIGHT, BF_LEFT},
                      {BF_RIGHT, BF_LEFT, BF_TOP}, {BF_BOTTOM, BF_TOP},
                      {BF_BOTTOM, BF_TOP, BF_LEFT}, BF_BOTTOMRIGHT \cup {BF_LEFT},
                      BF_BOTTOMRIGHT \cup {BF_TOP}, BF_RECT} THEN
        RightTopEndpoint(r)
    ELSE
        \* no case: spx = spy = epx = epy = 0
        [spx |-> 0, spy |-> 0, epx |-> 0, epy |-> 0, assigned |-> FALSE]

\* mutant of DiagInnerLine: the inner line is drawn over the outer line
DiagInnerLineOnOuter(e, dsx, dsy, dex, dey) ==
    <<MoveToEx(e.spx, e.spy), LineTo(e.epx, e.epy)>>

\* the inner line of a case of the second switch: the outer line's start moved
\* by (dsx, dsy) and its end by (dex, dey)
DiagInnerLine(e, dsx, dsy, dex, dey) ==
    <<MoveToEx(e.spx + dsx, e.spy + dsy), LineTo(e.epx + dex, e.epy + dey)>>

\* the second switch, on uFlags & (BF_RECT|BF_DIAGONAL): the inner line and the
\* four points of the polygon
DiagInner(r, type, flags) ==
    LET e == DiagEnds(r, flags)
        spx == e.spx
        spy == e.spy
        epx == e.epx
        epy == e.epy
        add == Add(type)
        key == flags \cap (BF_RECT \cup {BF_DIAGONAL})
        D == {BF_DIAGONAL}
    IN
    IF key \in {D \cup BF_BOTTOMLEFT, D \cup {BF_BOTTOM}, D, D \cup {BF_LEFT}} THEN
        [calls |-> DiagInnerLine(e, -1, 0, 0, -1),
         Points |-> <<Pt(spx - add, spy), Pt(r.left, r.top),
                      Pt(epx + 1, epy - 1 - add), Pt(epx + 1, epy - 1 - add)>>,
         assigned |-> TRUE]
    ELSE IF key = D \cup BF_BOTTOMRIGHT THEN
        [calls |-> DiagInnerLine(e, -1, 0, 0, 1),
         Points |-> <<Pt(spx - add, spy), Pt(r.left, r.bottom - 1),
                      Pt(epx + 1, epy + 1 + add), Pt(epx + 1, epy + 1 + add)>>,
         assigned |-> TRUE]
    ELSE IF key \in {D \cup {BF_BOTTOM, BF_RIGHT, BF_TOP}, D \cup BF_RECT,
                     D \cup BF_TOPRIGHT, D \cup {BF_RIGHT, BF_TOP, BF_LEFT}} THEN
        [calls |-> DiagInnerLine(e, 1, 0, 0, 1),
         Points |-> <<Pt(epx - 1, epy + 1 + add), Pt(r.right - 1, r.top + add),
                      Pt(r.right - 1, r.bottom - 1), Pt(spx + add, spy)>>,
         assigned |-> TRUE]
    ELSE IF key = D \cup BF_TOPLEFT THEN
        [calls |-> DiagInnerLine(e, 0, -1, 1, 0),
         Points |-> <<Pt(epx + 1 + add, epy + 1), Pt(r.right - 1, r.top),
                      Pt(r.right - 1, r.bottom - 1 - add), Pt(spx, spy - add)>>,
         assigned |-> TRUE]
    ELSE IF key \in {D \cup {BF_TOP}, D \cup {BF_BOTTOM, BF_TOP},
                     D \cup {BF_BOTTOM, BF_TOP, BF_LEFT}} THEN
        [calls |-> DiagInnerLine(e, 1, -1, 0, 0),
         Points |-> <<Pt(epx - 1, epy + 1), Pt(r.right - 1, r.top),
                      Pt(r.right - 1, r.bottom - 1 - add), Pt(spx + add, spy - add)>>,
         assigned |-> TRUE]
    ELSE IF key \in {D \cup {BF_RIGHT}, D \cup {BF_RIGHT, BF_LEFT},
                     D \cup {BF_RIGHT, BF_LEFT, BF_BOTTOM}} THEN
        [calls |-> DiagInnerLine(e, 0, 0, -1, 1),
         Points |-> <<Pt(spx, spy), Pt(r.left, r.top + add),
                      Pt(epx - 1 - add, epy + 1 + add), Pt(epx - 1 - add, epy + 1 + add)>>,
         assigned |-> TRUE]
    ELSE
        \* no case: nothing is drawn and Points stays as declared
        [calls |-> <<>>, Points |-> <<>>, assigned |-> FALSE]

\* "Init some vars" and MoveToEx(hdc, 0, 0, &SavePoint)
DiagInitCalls == <<SelectObject("pen", "NULL_PEN"), MoveToEx(0, 0)>>

\* the outer line, from (spx, spy) to (epx, epy)
DiagOuterCalls(r, type, flags) ==
    LET c == DiagColors(type, flags)
        OuterPen == PenFor(c.OuterI)
        e == DiagEnds(r, flags)
    IN <<MoveToEx(e.spx, e.spy), SelectObject("pen", OuterPen), SetDCPenColor(c.OuterI),
         LineTo(e.epx, e.epy)>>

\* the inner line, drawn by the second switch
DiagInnerCalls(r, type, flags) ==
    LET c == DiagColors(type, flags)
        InnerPen == PenFor(c.InnerI)
    IN <<SelectObject("pen", InnerPen), SetDCPenColor(c.InnerI)>>
       \o DiagInner(r, type, flags).calls

\* "Fill the interior if asked"
DiagFillCalls(hdc, r, type, flags) ==
    LET fill == IF BF_MONO \in flags THEN COLOR_WINDOW ELSE COLOR_BTNFACE
        hbsave == hdc.brush
        hpsave == PenFor(DiagColors(type, flags).InnerI)
    IN When(BF_MIDDLE \in flags /\ DiagRetval(type, flags),
            <<SelectObject("brush", "DC_BRUSH"), SelectObject("pen", "DC_PEN"),
              SetDCBrushColor(fill), SetDCPenColor(fill),
              Polygon(DiagInner(r, type, flags).Points),
              SelectObject("brush", hbsave), SelectObject("pen", hpsave)>>)

\* mutant of IntDrawDiagEdgeCalls: the polygon is filled before the two lines
IntDrawDiagEdgeCallsFillFirst(hdc, r, type, flags) ==
       DiagInitCalls
    \o DiagFillCalls(hdc, r, type, flags)
    \o DiagOuterCalls(r, type, flags)
    \o DiagInnerCalls(r, type, flags)
    \o CleanupCalls(hdc)

\* the GDI calls of IntDrawDiagEdge(hdc, &r, type, flags), in source order
IntDrawDiagEdgeCalls(hdc, r, type, flags) ==
       DiagInitCalls
    \o DiagOuterCalls(r, type, flags)
    \o DiagInnerCalls(r, type, flags)
    \o DiagFillCalls(hdc, r, type, flags)
    \o CleanupCalls(hdc)

\* *rc on return from IntDrawDiagEdge(hdc, &r, type, flags)
IntDrawDiagEdgeRect(r, type, flags) ==
    IF BF_ADJUST \in flags THEN Shrink(r, flags, Add(type)) ELSE r

---------------------------------------------------------------------------
(* IntGrayString, behind GrayStringA and GrayStringW.  The target device    *)
(* context is modelled by its text colour, its background colour and its    *)
(* brush; a GDI call that can fail is named in api.fail when it does.       *)

NULL == "NULL"

RGB(r, g, b) == <<r, g, b>>

\* the calls of IntGrayString whose result it tests, in source order
GrayApi == <<"GetTextExtentPoint32", "CreateCompatibleDC", "CreateBitmap",
             "SelectObject(MemBMP)", "SelectObject(font)", "SelectObject(hBrush)",
             "BitBlt(MemDC)", "TextOut", "BitBlt(hDC)">>

\* the k-th tested call fails, or none does (k = 0)
Fails(api, name) == api.fail # 0 /\ GrayApi[api.fail] = name

\* IntGrayString(hDC, hBrush, lpOutputFunc, lpData, nCount, X, Y, nWidth,
\* nHeight, unicode): the device context on return, the value returned, the
\* statement the call left by and what became of MemDC.  api.callback is what
\* lpOutputFunc returns.
IntGrayString(hDC, hBrush, lpOutputFunc, lpData, nCount, nWidth, nHeight, unicode, api) ==
    LET ForeColor == hDC.TextColor
        BackColor == hDC.BkColor
        entered == [hDC EXCEPT !.TextColor = RGB(0, 0, 0), !.BkColor = RGB(255, 255, 255)]
        brush == IF hBrush = NULL THEN hDC.brush ELSE hBrush
        count == IF nCount = 0 THEN lpData.len ELSE nCount
        measure == nWidth = 0 \/ nHeight = 0
        cleanup(success, MemDC) ==
            [hDC |-> [entered EXCEPT !.TextColor = ForeColor, !.BkColor = BackColor],
             ret |-> success,
             exit |-> "cleanup",
             MemDC |-> IF MemDC # NULL THEN "deleted" ELSE NULL]
    IN
    IF nCount = -1 /\ lpOutputFunc = NULL THEN
        [hDC |-> entered, ret |-> FALSE, exit |-> "return", MemDC |-> NULL]
    ELSE IF measure /\ Fails(api, "GetTextExtentPoint32") THEN
        cleanup(FALSE, NULL)
    ELSE
        \* success is TRUE here if the extent was asked for, FALSE as declared if not
        LET measured == measure IN
        IF Fails(api, "CreateCompatibleDC") THEN
            cleanup(measured, NULL)
        ELSE IF \E n \in {"CreateBitmap", "SelectObject(MemBMP)", "SelectObject(font)",
                          "SelectObject(hBrush)", "BitBlt(MemDC)"} : Fails(api, n) THEN
            cleanup(measured, "MemDC")
        ELSE IF lpOutputFunc # NULL THEN
            IF count = -1 /\ ~ api.callback
            THEN cleanup(~ Fails(api, "BitBlt(hDC)"), "MemDC")
            ELSE cleanup(api.callback, "MemDC")
        ELSE IF Fails(api, "TextOut") THEN
            cleanup(FALSE, "MemDC")
        ELSE
            cleanup(TRUE, "MemDC")

\* the colours and the brush of the device context a caller hands in
CallerColours == {RGB(0, 0, 0), RGB(255, 0, 0), RGB(255, 255, 255)}

CallerDC == [TextColor : CallerColours, BkColor : CallerColours, brush : {"CALLER_BRUSH"}]

\* no call of GrayString made yet on the device context hDC
GrayStart(hDC) ==
    [hDC |-> hDC, entry |-> hDC, ret |-> FALSE, exit |-> "none", MemDC |-> NULL,
     nCount |-> 0, lpOutputFunc |-> NULL, unicode |-> FALSE, calls |-> 0]

GrayIdle == GrayStart([TextColor |-> RGB(0, 0, 0), BkColor |-> RGB(255, 255, 255),
                       brush |-> "CALLER_BRUSH"])

---------------------------------------------------------------------------
(* The blend state setters of mesa32 (main/blend.c).  A GLenum is modelled  *)
(* by its name.  A setter is modelled by what it leaves: ctx->Color, the    *)
(* error it passed to _mesa_error, whether it went through FLUSH_VERTICES   *)
(* and the driver callbacks it invoked.                                     *)

GL_NO_ERROR == "GL_NO_ERROR"

GL_INVALID_ENUM == "GL_INVALID_ENUM"

\* the cases of the switch on sfactor, sfactorRGB and sfactorA
SourceFactors ==
    {"GL_SRC_COLOR", "GL_ONE_MINUS_SRC_COLOR", "GL_ZERO", "GL_ONE", "GL_DST_COLOR",
     "GL_ONE_MINUS_DST_COLOR", "GL_SRC_ALPHA", "GL_ONE_MINUS_SRC_ALPHA", "GL_DST_ALPHA",
     "GL_ONE_MINUS_DST_ALPHA", "GL_SRC_ALPHA_SATURATE", "GL_CONSTANT_COLOR",
     "GL_ONE_MINUS_CONSTANT_COLOR", "GL_CONSTANT_ALPHA", "GL_ONE_MINUS_CONSTANT_ALPHA"}

\* the cases of the switch on dfactor, dfactorRGB and dfactorA
DestFactors ==
    {"GL_DST_COLOR", "GL_ONE_MINUS_DST_COLOR", "GL_ZERO", "GL_ONE", "GL_SRC_COLOR",
     "GL_ONE_MINUS_SRC_COLOR", "GL_SRC_ALPHA", "GL_ONE_MINUS_SRC_ALPHA", "GL_DST_ALPHA",
     "GL_ONE_MINUS_DST_ALPHA", "GL_CONSTANT_COLOR", "GL_ONE_MINUS_CONSTANT_COLOR",
     "GL_CONSTANT_ALPHA", "GL_ONE_MINUS_CONSTANT_ALPHA"}

\* the cases of the switch on func in _mesa_AlphaFunc
AlphaFuncs == {"GL_NEVER", "GL_LESS", "GL_EQUAL", "GL_LEQUAL", "GL_GREATER",
               "GL_NOTEQUAL", "GL_GEQUAL", "GL_ALWAYS"}

\* the cases of the switch on opcode in _mesa_LogicOp
LogicOps == {"GL_CLEAR", "GL_SET", "GL_COPY", "GL_COPY_INVERTED", "GL_NOOP", "GL_INVERT",
             "GL_AND", "GL_NAND", "GL_OR", "GL_NOR", "GL_XOR", "GL_EQUIV",
             "GL_AND_REVERSE", "GL_AND_INVERTED", "GL_OR_REVERSE", "GL_OR_INVERTED"}

\* CLAMP(x, lo, hi)
CLAMP(v, lo, hi) == IF v < lo THEN lo ELSE IF v > hi THEN hi ELSE v

\* _mesa_error(ctx, error, ...); return;
ErrorReturn(c, error) ==
    [Color |-> c.Color, error |-> error, flushed |-> FALSE, driver |-> <<>>]

\* return; with nothing done
NoChange(c) ==
    [Color |-> c.Color, error |-> GL_NO_ERROR, flushed |-> FALSE, driver |-> <<>>]

\* FLUSH_VERTICES(ctx, _NEW_COLOR), the assignments that give Color, and the
\* driver callback cb if the driver has one
Changed(c, Color, cb, args) ==
    [Color |-> Color, error |-> GL_NO_ERROR, flushed |-> TRUE,
     driver |-> IF cb \in c.Driver THEN <<[f |-> cb, args |-> args]>> ELSE <<>>]

\* a case "GL_SRC_COLOR: GL_ONE_MINUS_SRC_COLOR:" of a source factor, or
\* "GL_DST_COLOR: GL_ONE_MINUS_DST_COLOR:" of a destination factor, taken
\* without NV_blend_square
SquareSource(c, f) ==
    f \in {"GL_SRC_COLOR", "GL_ONE_MINUS_SRC_COLOR"} /\ ~ c.Extensions.NV_blend_square

SquareDest(c, f) ==
    f \in {"GL_DST_COLOR", "GL_ONE_MINUS_DST_COLOR"} /\ ~ c.Extensions.NV_blend_square

\* mutant of mesa_BlendFunc: the destination factor is not tested for
\* NV_blend_square
mesa_BlendFuncUngatedDest(c, sfactor, dfactor) ==
    IF SquareSource(c, sfactor) \/ sfactor \notin SourceFactors THEN
        ErrorReturn(c, GL_INVALID_ENUM)
    ELSE IF dfactor \notin DestFactors THEN
        ErrorReturn(c, GL_INVALID_ENUM)
    ELSE IF /\ c.Color.BlendDstRGB = dfactor
            /\ c.Color.BlendSrcRGB = sfactor
            /\ c.Color.BlendDstA = dfactor
            /\ c.Color.BlendSrcA = sfactor THEN
        NoChange(c)
    ELSE
        Changed(c, [c.Color EXCEPT !.BlendDstRGB = dfactor, !.BlendDstA = dfactor,
                                   !.BlendSrcRGB = sfactor, !.BlendSrcA = sfactor],
                "BlendFunc", <<sfactor, dfactor>>)

\* _mesa_BlendFunc(sfactor, dfactor)
mesa_BlendFunc(c, sfactor, dfactor) ==
    IF SquareSource(c, sfactor) \/ sfactor \notin SourceFactors THEN
        ErrorReturn(c, GL_INVALID_ENUM)
    ELSE IF SquareDest(c, dfactor) \/ dfactor \notin DestFactors THEN
        ErrorReturn(c, GL_INVALID_ENUM)
    ELSE IF /\ c.Color.BlendDstRGB = dfactor
            /\ c.Color.BlendSrcRGB = sfactor
            /\ c.Color.BlendDstA = dfactor
            /\ c.Color.BlendSrcA = sfactor THEN
        NoChange(c)
    ELSE
        Changed(c, [c.Color EXCEPT !.BlendDstRGB = dfactor, !.BlendDstA = dfactor,
                                   !.BlendSrcRGB = sfactor, !.BlendSrcA = sfactor],
                "BlendFunc", <<sfactor, dfactor>>)

\* _mesa_BlendFuncSeparateEXT(sfactorRGB, dfactorRGB, sfactorA, dfactorA)
mesa_BlendFuncSeparateEXT(c, sfactorRGB, dfactorRGB, sfactorA, dfactorA) ==
    IF SquareSource(c, sfactorRGB) \/ sfactorRGB \notin SourceFactors THEN
        ErrorReturn(c, GL_INVALID_ENUM)
    ELSE IF SquareDest(c, dfactorRGB) \/ dfactorRGB \notin DestFactors THEN
        ErrorReturn(c, GL_INVALID_ENUM)
    ELSE IF SquareSource(c, sfactorA) \/ sfactorA \notin SourceFactors THEN
        ErrorReturn(c, GL_INVALID_ENUM)
    ELSE IF SquareDest(c, dfactorA) \/ dfactorA \notin DestFactors THEN
        ErrorReturn(c, GL_INVALID_ENUM)
    ELSE IF /\ c.Color.BlendSrcRGB = sfactorRGB
            /\ c.Color.BlendDstRGB = dfactorRGB
            /\ c.Color.BlendSrcA = sfactorA
            /\ c.Color.BlendDstA = dfactorA THEN
        NoChange(c)
    ELSE
        Changed(c, [c.Color EXCEPT !.BlendSrcRGB = sfactorRGB, !.BlendDstRGB = dfactorRGB,
                                   !.BlendSrcA = sfactorA, !.BlendDstA = dfactorA],
                "BlendFuncSeparate", <<sfactorRGB, dfactorRGB, sfactorA, dfactorA>>)

\* the switch of _mesa_BlendEquation: the mode is one of its cases and the
\* extension of the case is there
EquationAccepted(c, mode) ==
    CASE mode = "GL_FUNC_ADD_EXT" -> TRUE
      [] mode \in {"GL_MIN_EXT", "GL_MAX_EXT"} ->
            c.Extensions.EXT_blend_minmax \/ c.Extensions.ARB_imaging
      [] mode = "GL_LOGIC_OP" -> c.Extensions.EXT_blend_logic_op
      [] mode \in {"GL_FUNC_SUBTRACT_EXT", "GL_FUNC_REVERSE_SUBTRACT_EXT"} ->
            c.Extensions.EXT_blend_subtract \/ c.Extensions.ARB_imaging
      [] OTHER -> FALSE

\* _mesa_BlendEquation(mode)
mesa_BlendEquation(c, mode) ==
    IF ~ EquationAccepted(c, mode) THEN
        ErrorReturn(c, GL_INVALID_ENUM)
    ELSE IF c.Color.BlendEquation = mode THEN
        NoChange(c)
    ELSE
        Changed(c, [c.Color EXCEPT
                        !.BlendEquation = mode,
                        !.LogicOpEnabled = \/ c.Color.ColorLogicOpEnabled
                                           \/ (c.Color.BlendEnabled /\ mode = "GL_LOGIC_OP")],
                "BlendEquation", <<mode>>)

\* _mesa_AlphaFunc(func, ref)
mesa_AlphaFunc(c, func, ref) ==
    IF func \in AlphaFuncs THEN
        LET clamped == CLAMP(ref, 0, 1) IN
        IF c.Color.AlphaFunc = func /\ c.Color.AlphaRef = clamped THEN
            NoChange(c)
        ELSE
            Changed(c, [c.Color EXCEPT !.AlphaFunc = func, !.AlphaRef = clamped],
                    "AlphaFunc", <<func, clamped>>)
    ELSE
        ErrorReturn(c, GL_INVALID_ENUM)

\* _mesa_LogicOp(opcode)
mesa_LogicOp(c, opcode) ==
    IF opcode \notin LogicOps THEN
        ErrorReturn(c, GL_INVALID_ENUM)
    ELSE IF c.Color.LogicOp = opcode THEN
        NoChange(c)
    ELSE
        Changed(c, [c.Color EXCEPT !.LogicOp = opcode], "LogicOpcode", <<opcode>>)

\* _mesa_init_color: the fields of ctx->Color the setters read or write.
\* LogicOpEnabled stands for _LogicOpEnabled.
InitColor(BlendEnabled) ==
    [AlphaFunc |-> "GL_ALWAYS", AlphaRef |-> 0, BlendEnabled |-> BlendEnabled,
     BlendSrcRGB |-> "GL_ONE", BlendDstRGB |-> "GL_ZERO",
     BlendSrcA |-> "GL_ONE", BlendDstA |-> "GL_ZERO",
     BlendEquation |-> "GL_FUNC_ADD_EXT",
     ColorLogicOpEnabled |-> FALSE, LogicOpEnabled |-> FALSE, LogicOp |-> "GL_COPY"]

\* the driver callbacks the setters look for
DriverCallbacks == {"BlendFunc", "BlendFuncSeparate", "BlendEquation", "AlphaFunc",
                    "LogicOpcode"}

\* ctx->Extensions with every extension the setters test absent, or present
Extensions(on) ==
    [NV_blend_square |-> on, EXT_blend_minmax |-> on, ARB_imaging |-> FALSE,
     EXT_blend_logic_op |-> on, EXT_blend_subtract |-> on]

\* a context on which no setter was called yet
CtxIdle == [Color |-> InitColor(FALSE), Extensions |-> Extensions(FALSE),
            Driver |-> DriverCallbacks]

\* no call made: what glLast holds before the first call
GLIdle == [f |-> "none", args |-> <<>>, before |-> InitColor(FALSE),
           error |-> GL_NO_ERROR, flushed |-> FALSE, driver |-> <<>>, n |-> 0]

---------------------------------------------------------------------------
(* The state machine: DrawEdge called repeatedly on one rectangle *)

\* the rectangles a run starts from: the 10x10 square at the origin, a 3x5
\* rectangle that two calls turn inside out, an empty rectangle, and a
\* rectangle of no width and a height of 3
Rects == {Rect(0, 0, 10, 10), Rect(1, 2, 4, 7), Rect(3, 3, 3, 3), Rect(5, 1, 5, 4)}

\* the device context the caller hands in
InitDC == [pen |-> "CALLER_PEN", brush |-> "CALLER_BRUSH", pos |-> Pt(7, 9),
           penColor |-> COLOR_WINDOWFRAME, brushColor |-> COLOR_WINDOW]

Init ==
    /\ rc \in Rects
    /\ rc0 = rc
    /\ uType \in 0..MaxType
    /\ uFlags \in SUBSET AllFlags
    /\ dc = InitDC
    /\ gdi = <<>>
    /\ drawn = <<>>
    /\ retval = TRUE
    /\ ncalls = 0
    /\ failed = 0
    /\ gray = GrayIdle
    /\ ctx = CtxIdle
    /\ glLast = GLIdle

\* DrawEdge(hDC, &rc, uType, uFlags) without BF_DIAGONAL
DrawRectEdge ==
    /\ ncalls < MaxCalls
    /\ BF_DIAGONAL \notin uFlags
    /\ gdi' = IntDrawRectEdgeCalls(dc, rc, uType, uFlags)
    /\ LET run == Exec(dc, gdi') IN
         /\ dc' = run.dc
         /\ drawn' = run.out
    /\ rc0' = rc
    /\ rc' = IntDrawRectEdgeRect(rc, uType, uFlags)
    /\ retval' = Retval(uType, uFlags)
    /\ ncalls' = ncalls + 1
    /\ failed' = 0
    /\ UNCHANGED <<uType, uFlags, gray, ctx, glLast>>

\* DrawEdge(hDC, &rc, uType, uFlags) with BF_DIAGONAL
DrawDiagEdge ==
    /\ ncalls < MaxCalls
    /\ BF_DIAGONAL \in uFlags
    /\ gdi' = IntDrawDiagEdgeCalls(dc, rc, uType, uFlags)
    /\ LET run == Exec(dc, gdi') IN
         /\ dc' = run.dc
         /\ drawn' = run.out
    /\ rc0' = rc
    /\ rc' = IntDrawDiagEdgeRect(rc, uType, uFlags)
    /\ retval' = DiagRetval(uType, uFlags)
    /\ ncalls' = ncalls + 1
    /\ failed' = 0
    /\ UNCHANGED <<uType, uFlags, gray, ctx, glLast>>

Next == DrawRectEdge \/ DrawDiagEdge

Spec == Init /\ [][Next]_vars

---------------------------------------------------------------------------
(* The same calls on a device context on which a drawing call can fail.     *)
(* Neither renderer looks at what LineTo, FillRect or Polygon returns: the  *)
(* call that fails paints nothing and leaves the position where it was, and *)
(* the renderer goes on with its next statement.                            *)

Drawing == {"LineTo", "FillRect", "Polygon"}

\* the calls without the k-th one
Without(calls, k) == SubSeq(calls, 1, k - 1) \o SubSeq(calls, k + 1, Len(calls))

\* a run starts from the 10x10 square with a 4-bit style code
InitFailing ==
    /\ Init
    /\ rc = Rect(0, 0, 10, 10)
    /\ uType \in 0..BitOr(BDR_INNER, BDR_OUTER)

\* DrawEdge without BF_DIAGONAL, the k-th GDI call of which reports failure
DrawRectEdgeFailing ==
    /\ ncalls < MaxCalls
    /\ BF_DIAGONAL \notin uFlags
    /\ gdi' = IntDrawRectEdgeCalls(dc, rc, uType, uFlags)
    /\ \E k \in 1..Len(gdi') :
         /\ gdi'[k].f \in Drawing
         /\ failed' = k
         /\ LET run == Exec(dc, Without(gdi', k)) IN
              /\ dc' = run.dc
              /\ drawn' = run.out
    /\ rc0' = rc
    /\ rc' = IntDrawRectEdgeRect(rc, uType, uFlags)
    /\ retval' = Retval(uType, uFlags)
    /\ ncalls' = ncalls + 1
    /\ UNCHANGED <<uType, uFlags, gray, ctx, glLast>>

\* DrawEdge with BF_DIAGONAL, the k-th GDI call of which reports failure
DrawDiagEdgeFailing ==
    /\ ncalls < MaxCalls
    /\ BF_DIAGONAL \in uFlags
    /\ gdi' = IntDrawDiagEdgeCalls(dc, rc, uType, uFlags)
    /\ \E k \in 1..Len(gdi') :
         /\ gdi'[k].f \in Drawing
         /\ failed' = k
         /\ LET run == Exec(dc, Without(gdi', k)) IN
              /\ dc' = run.dc
              /\ drawn' = run.out
    /\ rc0' = rc
    /\ rc' = IntDrawDiagEdgeRect(rc, uType, uFlags)
    /\ retval' = DiagRetval(uType, uFlags)
    /\ ncalls' = ncalls + 1
    /\ UNCHANGED <<uType, uFlags, gray, ctx, glLast>>

NextFailing == DrawRectEdge \/ DrawDiagEdge \/ DrawRectEdgeFailing \/ DrawDiagEdgeFailing

SpecFailing == InitFailing /\ [][NextFailing]_vars

---------------------------------------------------------------------------
(* GrayStringA and GrayStringW called repeatedly on one device context *)

\* the arguments a call is made with
GrayBrushes == {NULL, "GRAY_BRUSH"}

GrayOutputFuncs == {NULL, "OutputProc"}

GrayCounts == {-1, 0, 3}

GrayWidths == {0, 5}

GrayHeights == {0, 4}

GrayData == [len |-> 3]

GrayOutcomes == [fail : 0..Len(GrayApi), callback : BOOLEAN]

InitGray ==
    /\ rc = Rect(0, 0, 10, 10)
    /\ rc0 = rc
    /\ uType = 0
    /\ uFlags = {}
    /\ dc = InitDC
    /\ gdi = <<>>
    /\ drawn = <<>>
    /\ retval = TRUE
    /\ ncalls = 0
    /\ failed = 0
    /\ gray \in {GrayStart(h) : h \in CallerDC}
    /\ ctx = CtxIdle
    /\ glLast = GLIdle

\* what a call of IntGrayString can leave, made on the device context as the
\* last call left it
GrayResults(unicode) ==
    { LET run == IntGrayString(gray.hDC, hBrush, lpOutputFunc, GrayData, nCount,
                               nWidth, nHeight, unicode, api)
      IN [hDC |-> run.hDC, entry |-> gray.hDC, ret |-> run.ret,
          exit |-> run.exit, MemDC |-> run.MemDC, nCount |-> nCount,
          lpOutputFunc |-> lpOutputFunc, unicode |-> unicode,
          calls |-> gray.calls + 1] :
      hBrush \in GrayBrushes, lpOutputFunc \in GrayOutputFuncs, nCount \in GrayCounts,
      nWidth \in GrayWidths, nHeight \in GrayHeights, api \in GrayOutcomes }

\* GrayStringA(hDC, hBrush, lpOutputFunc, lpData, nCount, X, Y, nWidth, nHeight)
GrayStringA ==
    /\ gray.calls < MaxGrayCalls
    /\ gray' \in GrayResults(FALSE)
    /\ UNCHANGED <<rc, rc0, uType, uFlags, dc, gdi, drawn, retval, ncalls, failed, ctx, glLast>>

\* GrayStringW(hDC, hBrush, lpOutputFunc, lpData, nCount, X, Y, nWidth, nHeight)
GrayStringW ==
    /\ gray.calls < MaxGrayCalls
    /\ gray' \in GrayResults(TRUE)
    /\ UNCHANGED <<rc, rc0, uType, uFlags, dc, gdi, drawn, retval, ncalls, failed, ctx, glLast>>

NextGray == GrayStringA \/ GrayStringW

SpecGray == InitGray /\ [][NextGray]_vars

---------------------------------------------------------------------------
(* The blend state setters called in any order on one context *)

\* the arguments the calls are made with: factors that are accepted, that need
\* NV_blend_square, that are accepted as a source only, and that are no factor
BlendFuncSources == {"GL_ONE", "GL_SRC_COLOR", "GL_SRC_ALPHA_SATURATE", "GL_NEVER"}

BlendFuncDests == {"GL_ZERO", "GL_DST_COLOR", "GL_SRC_ALPHA_SATURATE"}

SeparateSourcesRGB == {"GL_ONE", "GL_SRC_COLOR"}

SeparateDestsRGB == {"GL_ZERO", "GL_DST_COLOR"}

SeparateSourcesA == {"GL_ONE", "GL_NEVER"}

SeparateDestsA == {"GL_ZERO", "GL_SRC_ALPHA_SATURATE"}

EquationModes == {"GL_FUNC_ADD_EXT", "GL_MIN_EXT", "GL_LOGIC_OP", "GL_FUNC_SUBTRACT_EXT",
                  "GL_NEVER"}

AlphaFuncArgs == {"GL_ALWAYS", "GL_LESS", "GL_ZERO"}

AlphaRefArgs == {0, 1, 2}

LogicOpArgs == {"GL_COPY", "GL_XOR", "GL_ZERO"}

\* the contexts a run starts from: as _mesa_init_color leaves ctx->Color, with
\* blending enabled or not, with or without the extensions, and with a driver
\* that has all the callbacks or none
InitContexts ==
    { [Color |-> InitColor(b), Extensions |-> e, Driver |-> d] :
        b \in BOOLEAN,
        e \in {Extensions(FALSE), Extensions(TRUE),
               [Extensions(FALSE) EXCEPT !.ARB_imaging = TRUE]},
        d \in {DriverCallbacks, {}} }

InitBlend ==
    /\ rc = Rect(0, 0, 10, 10)
    /\ rc0 = rc
    /\ uType = 0
    /\ uFlags = {}
    /\ dc = InitDC
    /\ gdi = <<>>
    /\ drawn = <<>>
    /\ retval = TRUE
    /\ ncalls = 0
    /\ failed = 0
    /\ gray = GrayIdle
    /\ ctx \in InitContexts
    /\ glLast = [GLIdle EXCEPT !.before = ctx.Color]

\* the context and the record of the call after the call f(args) that left run
AfterCall(f, args, run) ==
    /\ ctx' = [ctx EXCEPT !.Color = run.Color]
    /\ glLast' = [f |-> f, args |-> args, before |-> ctx.Color, error |-> run.error,
                  flushed |-> run.flushed, driver |-> run.driver, n |-> glLast.n + 1]
    /\ UNCHANGED <<rc, rc0, uType, uFlags, dc, gdi, drawn, retval, ncalls, failed, gray>>

BlendFunc ==
    /\ glLast.n < MaxGLCalls
    /\ \E sfactor \in BlendFuncSources, dfactor \in BlendFuncDests :
         AfterCall("BlendFunc", <<sfactor, dfactor>>, mesa_BlendFunc(ctx, sfactor, dfactor))

BlendFuncSeparateEXT ==
    /\ glLast.n < MaxGLCalls
    /\ \E sfactorRGB \in SeparateSourcesRGB, dfactorRGB \in SeparateDestsRGB,
          sfactorA \in SeparateSourcesA, dfactorA \in SeparateDestsA :
         AfterCall("BlendFuncSeparateEXT", <<sfactorRGB, dfactorRGB, sfactorA, dfactorA>>,
                   mesa_BlendFuncSeparateEXT(ctx, sfactorRGB, dfactorRGB, sfactorA, dfactorA))

BlendEquation ==
    /\ glLast.n < MaxGLCalls
    /\ \E mode \in EquationModes :
         AfterCall("BlendEquation", <<mode>>, mesa_BlendEquation(ctx, mode))

AlphaFunc ==
    /\ glLast.n < MaxGLCalls
    /\ \E func \in AlphaFuncArgs, ref \in AlphaRefArgs :
         AfterCall("AlphaFunc", <<func, ref>>, mesa_AlphaFunc(ctx, func, ref))

LogicOp ==
    /\ glLast.n < MaxGLCalls
    /\ \E opcode \in LogicOpArgs :
         AfterCall("LogicOp", <<opcode>>, mesa_LogicOp(ctx, opcode))

NextBlend == BlendFunc \/ BlendFuncSeparateEXT \/ BlendEquation \/ AlphaFunc \/ LogicOp

SpecBlend == InitBlend /\ [][NextBlend]_vars

---------------------------------------------------------------------------
(* Vocabulary of the properties *)

\* a call has returned, and which renderer DrawEdge dispatched it to
Called == ncalls > 0

ByRect == Called /\ BF_DIAGONAL \notin uFlags

ByDiag == Called /\ BF_DIAGONAL \in uFlags

\* the LineTo and FillRect primitives of the last call, in the order issued
Lines == SelectSeq(drawn, LAMBDA d : d.op = "LineTo")

Fills == SelectSeq(drawn, LAMBDA d : d.op = "FillRect")

\* the colour indices the last call passed to SetDCPenColor, in the order issued
PenColours(calls) ==
    LET sets == SelectSeq(calls, LAMBDA g : g.f = "SetDCPenColor")
    IN [k \in 1..Len(sets) |-> sets[k].color]

Segment(d) == <<d.from.x, d.from.y, d.to.x, d.to.y>>

\* the 4-bit style code, its inner pair of bits and its outer pair of bits
Low4(type) == type % 16

InnerBits(type) == Low4(type) \div 4

OuterBits(type) == Low4(type) % 4

\* one inner and one outer bevel: EDGE_RAISED, EDGE_SUNKEN, EDGE_ETCHED, EDGE_BUMP
BothBevels(type) == InnerBits(type) \in {1, 2} /\ OuterBits(type) \in {1, 2}

\* an inner bevel only, or an outer bevel only
SingleBevel(type) ==
    \/ InnerBits(type) = 0 /\ OuterBits(type) # 0
    \/ OuterBits(type) = 0 /\ InnerBits(type) # 0

\* the colours that draw something
RealColours == {COLOR_WINDOW, COLOR_WINDOWFRAME, COLOR_BTNFACE, COLOR_BTNSHADOW,
                COLOR_BTNHIGHLIGHT, COLOR_3DDKSHADOW, COLOR_3DLIGHT}

\* the border thickness the Mono tables give for a style code
MonoThickness(type) ==
      (IF LTRBInnerMono[Low4(type) + 1] # NoLine THEN 1 ELSE 0)
    + (IF LTRBOuterMono[Low4(type) + 1] # NoLine THEN 1 ELSE 0)

\* side s of rectangle a lies d further inward than the same side of b
MovedIn(a, b, flags, d) ==
    /\ a.left = b.left + (IF BF_LEFT \in flags THEN d ELSE 0)
    /\ a.top = b.top + (IF BF_TOP \in flags THEN d ELSE 0)
    /\ a.right = b.right - (IF BF_RIGHT \in flags THEN d ELSE 0)
    /\ a.bottom = b.bottom - (IF BF_BOTTOM \in flags THEN d ELSE 0)

---------------------------------------------------------------------------
(* C1: for a style with one inner and one outer bevel, the normal palette,   *)
(* all four sides and no modifier, IntDrawRectEdge returns TRUE and draws    *)
(* exactly 8 lines, each with a real colour: the outer and the inner line of *)
(* each of the four sides.                                                   *)
C1_EightLines ==
    (ByRect /\ BothBevels(uType) /\ uFlags = BF_RECT) =>
        /\ retval = TRUE
        /\ Len(drawn) = 8
        /\ Len(Lines) = 8
        /\ \A k \in 1..Len(Lines) :
               Lines[k].pen = "DC_PEN" /\ Lines[k].color \in RealColours
        /\ LET l == rc0.left
               t == rc0.top
               r == rc0.right
               b == rc0.bottom
               expected == { <<l, t, r, t>>, <<l, t, l, b>>,
                             <<l, b - 1, r, b - 1>>, <<r - 1, t, r - 1, b>>,
                             <<l + 1, t + 1, r - 1, t + 1>>, <<l + 1, t + 1, l + 1, b - 1>>,
                             <<l + 1, b - 2, r - 1, b - 2>>, <<r - 2, t + 1, r - 2, b - 1>> }
           IN \A e \in expected : \E k \in 1..Len(Lines) : Segment(Lines[k]) = e

C1_Witness ==
    /\ ByRect /\ uType = 5 /\ uFlags = BF_RECT
    /\ rc0 = Rect(0, 0, 10, 10)
    /\ retval = TRUE
    /\ Len(Lines) = 8

(* C2, as claimed: for every single-bevel style code (inner only or outer   *)
(* only) without Flat and without Mono, IntDrawRectEdge returns FALSE.       *)
C2_Original ==
    (ByRect /\ SingleBevel(uType) /\ uFlags \cap {BF_FLAT, BF_MONO} = {}) =>
        retval = FALSE

(* C2, amended: for a single-bevel style code without Flat and without Mono, *)
(* IntDrawRectEdge returns FALSE exactly when both bits of that bevel are    *)
(* set (BDR_OUTER or BDR_INNER); for the one-bit codes 1, 2, 4, 8 it returns *)
(* TRUE.                                                                    *)
C2_SingleBevelValid ==
    (ByRect /\ SingleBevel(uType) /\ uFlags \cap {BF_FLAT, BF_MONO} = {}) =>
        /\ Low4(uType) \in {1, 2, 4, 8} => retval = TRUE
        /\ Low4(uType) \in {3, 12} => retval = FALSE
        /\ Low4(uType) \in {1, 2, 4, 8, 3, 12}

C2_Witness ==
    /\ ByRect /\ uType = 1 /\ uFlags = BF_RECT
    /\ retval = TRUE
    /\ Len(Lines) = 8

(* C3: with a both-bevels style, all four sides and Adjust, IntDrawRectEdge  *)
(* returns TRUE and moves every side of the rectangle inward by 2; the      *)
(* rectangle (0,0,10,10) becomes (2,2,8,8).                                  *)
C3_AdjustByTwo ==
    (ByRect /\ BothBevels(uType) /\ BF_RECT \subseteq uFlags /\ BF_ADJUST \in uFlags) =>
        /\ retval = TRUE
        /\ rc = Rect(rc0.left + 2, rc0.top + 2, rc0.right - 2, rc0.bottom - 2)
        /\ rc0 = Rect(0, 0, 10, 10) => rc = Rect(2, 2, 8, 8)

C3_Witness ==
    /\ ByRect /\ uType = 10 /\ uFlags = BF_RECT \cup {BF_ADJUST}
    /\ ncalls = 1
    /\ rc0 = Rect(0, 0, 10, 10)
    /\ rc = Rect(2, 2, 8, 8)

(* C4: in both renderers, with Adjust the shrink thickness is the number of  *)
(* Mono table entries (inner, outer) of the style code that are not the omit *)
(* value, whatever palette drew the lines; every side in the side mask moves *)
(* inward by that thickness and every other side keeps its coordinate.       *)
C4_AdjustByMonoThickness ==
    (Called /\ BF_ADJUST \in uFlags) =>
        MovedIn(rc, rc0, uFlags, MonoThickness(uType))

\* the normal palette draws no line for style 3, the Mono tables give it width 1
C4_Witness ==
    /\ ByDiag /\ uType = 3 /\ uFlags = {BF_DIAGONAL, BF_ADJUST, BF_LEFT, BF_BOTTOM}
    /\ ncalls = 1
    /\ \A k \in 1..Len(Lines) : Lines[k].pen = "NULL_PEN"
    /\ rc0 = Rect(0, 0, 10, 10)
    /\ rc = Rect(1, 0, 10, 9)

(* C5: a second call with Adjust, with the same style, flags and side mask,  *)
(* on the rectangle the first call shrank, shrinks every side by the same    *)
(* amount as the first call did, also when the rectangle is empty or        *)
(* inverted.                                                                *)
C5_RepeatedAdjust ==
    [][ (ByRect /\ BF_ADJUST \in uFlags) =>
            /\ rc'.left - rc.left = rc.left - rc0.left
            /\ rc'.top - rc.top = rc.top - rc0.top
            /\ rc.right - rc'.right = rc0.right - rc.right
            /\ rc.bottom - rc'.bottom = rc0.bottom - rc.bottom ]_vars

\* the second call has returned, the rectangle has shrunk twice and is inverted
C5_Witness ==
    /\ ByRect /\ BF_ADJUST \in uFlags /\ ncalls = 2
    /\ rc0.left < rc0.right
    /\ rc.left = rc0.left + 1
    /\ rc.left > rc.right

(* C6: without Adjust neither renderer changes a coordinate of the caller's  *)
(* rectangle, for every style code, side mask and modifier, Middle included. *)
C6_NoAdjustNoChange ==
    (Called /\ BF_ADJUST \notin uFlags) => rc = rc0

C6_Witness ==
    /\ ByRect /\ BF_ADJUST \notin uFlags /\ BF_MIDDLE \in uFlags
    /\ BF_RECT \subseteq uFlags
    /\ retval = TRUE
    /\ Len(Fills) = 1
    /\ MonoThickness(uType) = 2
    /\ rc = Rect(0, 0, 10, 10)

\* the colours the tables of one palette give for a style code, in the order
\* the rectangular renderer sets them: LT outer, RB outer, LT inner, RB inner
MonoColours(type) ==
    LET i == Low4(type) + 1
    IN <<LTRBOuterMono[i], LTRBOuterMono[i], LTRBInnerMono[i], LTRBInnerMono[i]>>

FlatColours(type) ==
    LET i == Low4(type) + 1
    IN <<LTRBOuterFlat[i], LTRBOuterFlat[i], LTRBInnerFlat[i], LTRBInnerFlat[i]>>

SoftColours(type) ==
    LET i == Low4(type) + 1
    IN <<LTOuterSoft[i], RBOuterSoft[i], LTInnerSoft[i], RBInnerSoft[i]>>

NormalColours(type) ==
    LET i == Low4(type) + 1
    IN <<LTOuterNormal[i], RBOuterNormal[i], LTInnerNormal[i], RBInnerNormal[i]>>

\* the outer and the inner colour the diagonal renderer takes from the four
\* colours q of a palette: the right-bottom pair with BF_BOTTOM, else the left-top pair
DiagPair(q, flags) == IF BF_BOTTOM \in flags THEN <<q[2], q[4]>> ELSE <<q[1], q[3]>>

\* the colours the last call resolved: four of the rectangular renderer, the
\* outer and the inner one of the diagonal renderer
Resolved == IF BF_DIAGONAL \in uFlags THEN SubSeq(PenColours(gdi), 1, 2)
            ELSE PenColours(gdi)

\* the last call took its colours from the four colours q of a palette
ResolvedFrom(q) == Resolved = (IF BF_DIAGONAL \in uFlags THEN DiagPair(q, uFlags) ELSE q)

(* C7: both renderers resolve their colours with the priority Mono > Flat >  *)
(* Soft > normal: the Mono tables if Mono is set, else the Flat tables if    *)
(* Flat is set, else the Soft tables if Soft is set, else the normal tables. *)
C7_PalettePriority ==
    Called =>
        /\ BF_MONO \in uFlags => ResolvedFrom(MonoColours(uType))
        /\ (BF_FLAT \in uFlags /\ BF_MONO \notin uFlags) => ResolvedFrom(FlatColours(uType))
        /\ (BF_SOFT \in uFlags /\ uFlags \cap {BF_FLAT, BF_MONO} = {}) =>
               ResolvedFrom(SoftColours(uType))
        /\ uFlags \cap {BF_SOFT, BF_FLAT, BF_MONO} = {} => ResolvedFrom(NormalColours(uType))

\* all three palette flags at once: the lines are drawn in the Mono colours
C7_Witness ==
    /\ ByRect /\ uType = 5 /\ {BF_MONO, BF_FLAT, BF_SOFT} \subseteq uFlags
    /\ BF_RECT \subseteq uFlags
    /\ Len(Lines) = 8
    /\ Lines[1].color = COLOR_WINDOWFRAME
    /\ Lines[8].color = COLOR_WINDOW

(* C8: under Flat without Mono, for every style code the inner colour the    *)
(* rectangular renderer resolves (left-top and right-bottom) is the omit     *)
(* value or COLOR_BTNFACE, and it is the omit value exactly when the Flat    *)
(* inner table entry of the style code is.                                   *)
C8_FlatInnerIsFace ==
    (ByRect /\ BF_FLAT \in uFlags /\ BF_MONO \notin uFlags) =>
        \A k \in {3, 4} :
            /\ Resolved[k] \in {NoLine, COLOR_BTNFACE}
            /\ Resolved[k] = NoLine <=> LTRBInnerFlat[Low4(uType) + 1] = NoLine

\* a Flat raised edge: the four inner lines are drawn in the face colour
C8_Witness ==
    /\ ByRect /\ uType = 5 /\ uFlags = BF_RECT \cup {BF_FLAT}
    /\ Len(Lines) = 8
    /\ \A k \in 5..8 : Lines[k].pen = "DC_PEN" /\ Lines[k].color = COLOR_BTNFACE
    /\ \A k \in 1..4 : Lines[k].color = COLOR_BTNSHADOW

\* the colours IntDrawRectEdge resolves for style code type under the flags of
\* the last call
ResolvedFor(type) == PenColours(IntDrawRectEdgeCalls(InitDC, rc0, type, uFlags))

(* C9, as claimed: the colours are a function of (style code & 3, flags):    *)
(* two style codes that agree on their two low bits resolve to the same four *)
(* colours under the same flags.                                             *)
C9_Original ==
    ByRect =>
        \A t \in 0..MaxType : t % 4 = uType % 4 => ResolvedFor(t) = Resolved

(* C9, amended: the colours are a function of (style code & 15, flags): the  *)
(* bits above BDR_INNER|BDR_OUTER are masked off before the lookup, so two   *)
(* style codes that agree on their four low bits resolve to the same four    *)
(* colours under the same flags, and no lookup leaves the 16-entry tables.   *)
C9_FourBitMask ==
    ByRect =>
        /\ \A t \in 0..MaxType : t % 16 = uType % 16 => ResolvedFor(t) = Resolved
        /\ \A k \in 1..4 : Resolved[k] \in RealColours \cup {NoLine}

\* a style code with a bit above the mask draws as EDGE_RAISED does
C9_Witness ==
    /\ ByRect /\ uType = 16 + 5 /\ uFlags = BF_RECT
    /\ Resolved = <<COLOR_3DLIGHT, COLOR_3DDKSHADOW, COLOR_BTNHIGHLIGHT, COLOR_BTNSHADOW>>
    /\ Len(Lines) = 8

\* the fill colour of Middle
FillColour == IF BF_MONO \in uFlags THEN COLOR_WINDOW ELSE COLOR_BTNFACE

\* the first primitive of the last call is the fill of the rectangle as it was
\* on entry, and it is the only fill
FillIsFirst ==
    /\ Len(drawn) >= 1
    /\ drawn[1].op = "FillRect"
    /\ drawn[1].rect = rc0
    /\ drawn[1].color = FillColour
    /\ \A k \in 2..Len(drawn) : drawn[k].op = "LineTo"

(* C10, as claimed: if Middle is set, IntDrawRectEdge fills the rectangle's  *)
(* original bounds with COLOR_BTNFACE (COLOR_WINDOW under Mono) before any   *)
(* line is drawn.                                                           *)
C10_Original ==
    (ByRect /\ BF_MIDDLE \in uFlags) => FillIsFirst

(* C10, amended: if Middle is set and the (style, flags) combination is      *)
(* valid, so that TRUE is returned, IntDrawRectEdge fills the rectangle's    *)
(* original bounds with COLOR_BTNFACE (COLOR_WINDOW under Mono) before any   *)
(* line is drawn; if FALSE is returned nothing is filled.                    *)
C10_FillFirstWhenValid ==
    (ByRect /\ BF_MIDDLE \in uFlags) =>
        /\ retval = TRUE => FillIsFirst
        /\ retval = FALSE => Len(Fills) = 0

\* the fill, then the eight lines, with Adjust shrinking the rectangle after it
C10_Witness ==
    /\ ByRect /\ uType = 5 /\ uFlags = BF_RECT \cup {BF_MIDDLE, BF_ADJUST}
    /\ rc0 = Rect(0, 0, 10, 10)
    /\ rc = Rect(2, 2, 8, 8)
    /\ Len(drawn) = 9
    /\ drawn[1] = [op |-> "FillRect", rect |-> Rect(0, 0, 10, 10), color |-> COLOR_BTNFACE]

---------------------------------------------------------------------------
(* Vocabulary of the line placement *)

\* the sides in the order IntDrawRectEdge draws them, and those selected
SideOrder == <<BF_TOP, BF_LEFT, BF_BOTTOM, BF_RIGHT>>

Selected == SelectSeq(SideOrder, LAMBDA s : s \in uFlags)

SidePos(s) == CHOOSE k \in 1..Len(Selected) : Selected[k] = s

\* the outer and the inner line of a selected side, among the lines of the call
OuterLine(s) == Lines[SidePos(s)]

InnerLine(s) == Lines[Len(Selected) + SidePos(s)]

\* 1 if both sides of a corner are selected, else 0
Corner(a, b) == IF a \in uFlags /\ b \in uFlags THEN 1 ELSE 0

(* C11: in IntDrawRectEdge an end of an inner line is moved inward by one    *)
(* pixel exactly when the adjoining side is selected too (the inner top line *)
(* starts at left+1 and the inner left line at top+1 when top and left are   *)
(* both selected, at left and top otherwise, and likewise at the other three *)
(* corners); the outer lines always span the whole side.                     *)
C11_CornerAdjust ==
    ByRect =>
        LET l == rc0.left
            t == rc0.top
            r == rc0.right
            b == rc0.bottom
        IN
        /\ Len(Lines) = 2 * Len(Selected)
        /\ BF_TOP \in uFlags =>
              /\ Segment(OuterLine(BF_TOP)) = <<l, t, r, t>>
              /\ Segment(InnerLine(BF_TOP)) =
                    <<l + Corner(BF_TOP, BF_LEFT), t + 1, r - Corner(BF_TOP, BF_RIGHT), t + 1>>
        /\ BF_LEFT \in uFlags =>
              /\ Segment(OuterLine(BF_LEFT)) = <<l, t, l, b>>
              /\ Segment(InnerLine(BF_LEFT)) =
                    <<l + 1, t + Corner(BF_TOP, BF_LEFT), l + 1, b - Corner(BF_BOTTOM, BF_LEFT)>>
        /\ BF_BOTTOM \in uFlags =>
              /\ Segment(OuterLine(BF_BOTTOM)) = <<l, b - 1, r, b - 1>>
              /\ Segment(InnerLine(BF_BOTTOM)) =
                    <<l + Corner(BF_BOTTOM, BF_LEFT), b - 2, r - Corner(BF_BOTTOM, BF_RIGHT), b - 2>>
        /\ BF_RIGHT \in uFlags =>
              /\ Segment(OuterLine(BF_RIGHT)) = <<r - 1, t, r - 1, b>>
              /\ Segment(InnerLine(BF_RIGHT)) =
                    <<r - 2, t + Corner(BF_TOP, BF_RIGHT), r - 2, b - Corner(BF_BOTTOM, BF_RIGHT)>>

\* top and left without right and bottom: the inner top line is cut at its
\* left end only, the inner left line at its upper end only
C11_Witness ==
    /\ ByRect /\ uType = 5 /\ uFlags \cap BF_RECT = BF_TOPLEFT
    /\ rc0 = Rect(0, 0, 10, 10)
    /\ Len(Lines) = 4
    /\ Segment(Lines[1]) = <<0, 0, 10, 0>>
    /\ Segment(Lines[2]) = <<0, 0, 0, 10>>
    /\ Segment(Lines[3]) = <<1, 1, 10, 1>>
    /\ Segment(Lines[4]) = <<1, 1, 1, 10>>

---------------------------------------------------------------------------
\* the modifier bits of the call: uFlags without the sides and BF_DIAGONAL
Modifiers == uFlags \ (BF_RECT \cup {BF_DIAGONAL})

(* C12: the two renderers apply the same validity rule: what IntDrawDiagEdge *)
(* returns for a style code and a modifier set is what IntDrawRectEdge       *)
(* returns for them, and the reverse, whatever the rectangle and the side    *)
(* bits are.                                                                 *)
C12_SameValidity ==
    \A sides \in SUBSET BF_RECT :
        /\ ByDiag => retval = Retval(uType, Modifiers \cup sides)
        /\ ByRect => retval = DiagRetval(uType, Modifiers \cup sides \cup {BF_DIAGONAL})

\* an invalid style on the diagonal renderer, which the rectangular one rejects too
C12_Witness ==
    /\ ByDiag /\ uType = 11 /\ Modifiers \cap {BF_FLAT, BF_MONO} = {}
    /\ rc0 = Rect(1, 2, 4, 7)
    /\ retval = FALSE
    /\ ~ Retval(uType, Modifiers)

---------------------------------------------------------------------------
\* the rectangle on entry is a square of side n
Square(n) == rc0.right - rc0.left = n /\ rc0.bottom - rc0.top = n

\* IntDrawDiagEdge was called with the sides of BF_DIAGONAL_ENDBOTTOMLEFT
EndBottomLeft == ByDiag /\ uFlags \cap BF_RECT = BF_BOTTOMLEFT

(* C13, as claimed: for "ends bottom-left" on a square of side N the outer   *)
(* diagonal line runs from (left, bottom) to (left+N, bottom-N); the line is *)
(* accepted in either direction.                                             *)
C13_Original ==
    \A n \in 0..10 :
        (EndBottomLeft /\ Square(n)) =>
            /\ Len(Lines) >= 1
            /\ Segment(Lines[1]) \in
                  { <<rc0.left, rc0.bottom, rc0.left + n, rc0.bottom - n>>,
                    <<rc0.left + n, rc0.bottom - n, rc0.left, rc0.bottom>> }

(* C13, amended: for "ends bottom-left" on a square of side N the outer      *)
(* diagonal line is drawn from (left+N-1, bottom-N) to (left-1, bottom): one *)
(* pixel further left than claimed, and from the upper end to the lower.     *)
C13_OuterDiagonal ==
    \A n \in 0..10 :
        (EndBottomLeft /\ Square(n)) =>
            /\ Len(Lines) >= 1
            /\ Segment(Lines[1]) =
                  <<rc0.left + n - 1, rc0.bottom - n, rc0.left - 1, rc0.bottom>>

\* the 10x10 square at the origin: from (9, 0) to (-1, 10)
C13_Witness ==
    /\ EndBottomLeft /\ uType = 5 /\ Square(10)
    /\ rc0 = Rect(0, 0, 10, 10)
    /\ Segment(Lines[1]) = <<9, 0, -1, 10>>
    /\ Lines[1].pen = "DC_PEN"

---------------------------------------------------------------------------
\* the polygons of the last call
Polygons == SelectSeq(drawn, LAMBDA d : d.op = "Polygon")

\* the four named orientations, each with the direction (ix, iy) in which its
\* filled triangle lies as seen from the diagonal: -1 is left or up, 1 right or down
Orientations ==
    { [sides |-> BF_BOTTOMLEFT,  ix |-> -1, iy |-> -1],
      [sides |-> BF_BOTTOMRIGHT, ix |-> -1, iy |->  1],
      [sides |-> BF_TOPRIGHT,    ix |->  1, iy |->  1],
      [sides |-> BF_TOPLEFT,     ix |->  1, iy |-> -1] }

\* the corner of the rectangle on entry that lies in direction (ix, iy)
CornerPoint(ix, iy) ==
    Pt(IF ix < 0 THEN rc0.left ELSE rc0.right - 1,
       IF iy < 0 THEN rc0.top ELSE rc0.bottom - 1)

\* point q is point p moved one pixel along one axis, in direction (ix, iy)
OneStepToward(p, q, ix, iy) ==
    \/ q.x = p.x + ix /\ q.y = p.y
    \/ q.x = p.x /\ q.y = p.y + iy

(* C14: for each of the four named orientations of IntDrawDiagEdge the inner *)
(* line is the outer line with each end point moved by one pixel in exactly  *)
(* one coordinate, toward the side of the diagonal on which the polygon of   *)
(* the Middle fill lies (the polygon has the rectangle's corner of that side *)
(* among its points).                                                        *)
C14_InnerOffset ==
    \A o \in Orientations :
        (ByDiag /\ uFlags \cap BF_RECT = o.sides) =>
            /\ Len(Lines) = 2
            /\ OneStepToward(Lines[1].from, Lines[2].from, o.ix, o.iy)
            /\ OneStepToward(Lines[1].to, Lines[2].to, o.ix, o.iy)
            /\ \A k \in 1..Len(Polygons) :
                  \E n \in 1..4 : Polygons[k].points[n] = CornerPoint(o.ix, o.iy)

\* "ends top-left" with Middle on the 10x10 square: the outer line from (9, 9)
\* to (-1, -1), the inner one from (9, 8) to (0, -1), the fill in the upper right
C14_Witness ==
    /\ ByDiag /\ uType = 5 /\ uFlags \cap BF_RECT = BF_TOPLEFT /\ BF_MIDDLE \in uFlags
    /\ rc0 = Rect(0, 0, 10, 10)
    /\ Segment(Lines[1]) = <<9, 9, -1, -1>>
    /\ Segment(Lines[2]) = <<9, 8, 0, -1>>
    /\ Len(Polygons) = 1
    /\ Polygons[1].points[2] = Pt(9, 0)

---------------------------------------------------------------------------
(* C15: on return from either renderer, whatever the style code and the      *)
(* flags are and whether TRUE or FALSE is returned, the current position,    *)
(* the selected pen and the selected brush of the device context are those   *)
(* it had when the call started.                                             *)
C15_StateRestored ==
    [][ /\ dc'.pos = dc.pos
        /\ dc'.pen = dc.pen
        /\ dc'.brush = dc.brush ]_vars

\* a diagonal call with Middle has selected the NULL_PEN, the DC_PEN and the
\* DC_BRUSH and moved the position, and has put the caller's objects back
C15_Witness ==
    /\ ByDiag /\ uType = 5 /\ BF_MIDDLE \in uFlags /\ retval = TRUE
    /\ \E k \in 1..Len(gdi) : gdi[k] = SelectObject("brush", "DC_BRUSH")
    /\ \E k \in 1..Len(gdi) : gdi[k] = SelectObject("pen", "NULL_PEN")
    /\ \E k \in 1..Len(gdi) : gdi[k] = SelectObject("pen", "DC_PEN")
    /\ Len(Lines) = 2
    /\ dc.pos = InitDC.pos
    /\ dc.pen = InitDC.pen
    /\ dc.brush = InitDC.brush
    /\ dc.penColor # InitDC.penColor

---------------------------------------------------------------------------
(* What reaches the surface: the pixels of a primitive *)

Sgn(n) == IF n > 0 THEN 1 ELSE IF n < 0 THEN -1 ELSE 0

Abs(n) == IF n < 0 THEN -n ELSE n

\* a line steps from its start toward its end and leaves the end point out;
\* the lines of both renderers are horizontal, vertical or at 45 degrees
LineLength(d) ==
    LET dx == Abs(d.to.x - d.from.x)
        dy == Abs(d.to.y - d.from.y)
    IN IF dx > dy THEN dx ELSE dy

LineCovers(d, p) ==
    LET sx == Sgn(d.to.x - d.from.x)
        sy == Sgn(d.to.y - d.from.y)
        k == IF sx # 0 THEN (p.x - d.from.x) * sx ELSE (p.y - d.from.y) * sy
    IN /\ d.pen # "NULL_PEN"
       /\ k >= 0 /\ k < LineLength(d)
       /\ p.x = d.from.x + k * sx
       /\ p.y = d.from.y + k * sy

\* a filled rectangle has its left and top side and not its right and bottom
RectCovers(r, p) ==
    /\ r.left <= p.x /\ p.x < r.right
    /\ r.top <= p.y /\ p.y < r.bottom

\* the line or the fill paints at least one pixel
Paints(d) ==
    IF d.op = "LineTo" THEN d.pen # "NULL_PEN" /\ LineLength(d) > 0
    ELSE IF d.op = "FillRect" THEN RectCovers(d.rect, Pt(d.rect.left, d.rect.top))
    ELSE TRUE

\* a rectangle of no width or no height
ZeroArea(r) == r.right = r.left \/ r.bottom = r.top

NoSide == uFlags \cap BF_RECT = {}

\* the validity rule read off the style code and the palette modifiers
ValidCombination ==
    ~ ((InnerBits(uType) = 3 \/ OuterBits(uType) = 3) /\ uFlags \cap {BF_FLAT, BF_MONO} = {})

(* C16, as claimed: when the rectangle has zero area, or when no side bit is *)
(* set, IntDrawRectEdge paints nothing (no line and no fill reaches the      *)
(* surface) and returns TRUE, whatever the style code and the modifiers are. *)
C16_Original ==
    (ByRect /\ (ZeroArea(rc0) \/ NoSide)) =>
        /\ retval = TRUE
        /\ \A k \in 1..Len(drawn) : ~ Paints(drawn[k])

(* C16, amended: when the rectangle has zero area, or when no side bit is    *)
(* set, IntDrawRectEdge returns what the validity rule gives, FALSE for an   *)
(* invalid (style, modifier) combination; with no side bit it draws no line, *)
(* and fills the rectangle exactly when Middle is set and the combination is *)
(* valid; on a rectangle of zero area the fill covers no pixel, while the    *)
(* two lines of every selected side are still drawn.                         *)
C16_Degenerate ==
    (ByRect /\ (ZeroArea(rc0) \/ NoSide)) =>
        /\ retval = ValidCombination
        /\ NoSide =>
              /\ Len(Lines) = 0
              /\ Len(Fills) = (IF BF_MIDDLE \in uFlags /\ ValidCombination THEN 1 ELSE 0)
        /\ ZeroArea(rc0) =>
              /\ \A k \in 1..Len(Fills) : Fills[k].rect = rc0 /\ ~ Paints(Fills[k])
              /\ Len(Lines) = 2 * Len(Selected)

\* the empty rectangle at (3, 3) with all four sides: the call returns TRUE and
\* the inner top line, from (4, 4) to (2, 4), paints two pixels
C16_Witness ==
    /\ ByRect /\ uType = 5 /\ uFlags = BF_RECT \cup {BF_MIDDLE}
    /\ rc0 = Rect(3, 3, 3, 3)
    /\ retval = TRUE
    /\ Len(Fills) = 1 /\ ~ Paints(Fills[1])
    /\ Len(Lines) = 8
    /\ Segment(InnerLine(BF_TOP)) = <<4, 4, 2, 4>>
    /\ Paints(InnerLine(BF_TOP))
    /\ LineCovers(InnerLine(BF_TOP), Pt(4, 4))
    /\ LineCovers(InnerLine(BF_TOP), Pt(3, 4))
    /\ ~ LineCovers(InnerLine(BF_TOP), Pt(2, 4))

---------------------------------------------------------------------------
\* primitive d covers pixel p
Covers(d, p) ==
    IF d.op = "LineTo" THEN LineCovers(d, p)
    ELSE IF d.op = "FillRect" THEN RectCovers(d.rect, p)
    ELSE FALSE

\* the colour the last call has left on pixel p: that of the last primitive
\* covering it, NoLine if none does
ColourAt(p) ==
    LET ks == {k \in 1..Len(drawn) : Covers(drawn[k], p)}
    IN IF ks = {} THEN NoLine
       ELSE drawn[CHOOSE k \in ks : \A j \in ks : j <= k].color

WellOrdered(r) == r.left <= r.right /\ r.top <= r.bottom

\* the rectangle on entry shrunk on each selected side by the border thickness
Interior ==
    LET d == MonoThickness(uType) IN
    Rect(rc0.left + (IF BF_LEFT \in uFlags THEN d ELSE 0),
         rc0.top + (IF BF_TOP \in uFlags THEN d ELSE 0),
         rc0.right - (IF BF_RIGHT \in uFlags THEN d ELSE 0),
         rc0.bottom - (IF BF_BOTTOM \in uFlags THEN d ELSE 0))

\* the pixels of the rectangle on entry that lie outside the interior
Border ==
    {p \in {Pt(px, py) : px \in rc0.left..(rc0.right - 1), py \in rc0.top..(rc0.bottom - 1)} :
        ~ RectCovers(Interior, p)}

\* IntDrawRectEdge has filled a rectangle that is not inside out
Filled == ByRect /\ Len(Fills) = 1 /\ WellOrdered(rc0)

(* C17, as claimed: after a call of IntDrawRectEdge with Middle, no pixel    *)
(* outside the final interior rectangle still shows the fill colour, for     *)
(* every style code, palette modifier and side mask on which the fill is     *)
(* performed.                                                                *)
C17_Original ==
    Filled => \A p \in Border : ColourAt(p) # FillColour

(* C17, amended: after a call of IntDrawRectEdge with Middle under the       *)
(* normal or the Soft palette, no pixel of the rectangle outside the final   *)
(* interior still shows the fill colour, for every style code and side mask  *)
(* on which the fill is performed; under Flat and Mono the bevel lines can   *)
(* be of the fill colour themselves.                                         *)
C17_FillCovered ==
    (Filled /\ uFlags \cap {BF_FLAT, BF_MONO} = {}) =>
        \A p \in Border : ColourAt(p) # FillColour

\* top and right of the 3x5 rectangle, both bevels: the corner pixel (2, 3) of
\* the inner lines is painted by the outer right line only
C17_Witness ==
    /\ Filled /\ uType = 5 /\ uFlags = BF_TOPRIGHT \cup {BF_MIDDLE}
    /\ rc0 = Rect(1, 2, 4, 7)
    /\ Interior = Rect(1, 4, 2, 7)
    /\ ColourAt(Pt(1, 5)) = COLOR_BTNFACE
    /\ ColourAt(Pt(1, 3)) = COLOR_BTNHIGHLIGHT
    /\ ColourAt(Pt(3, 3)) = COLOR_3DDKSHADOW
    /\ ColourAt(Pt(2, 3)) = COLOR_BTNSHADOW
    /\ \A p \in Border : ColourAt(p) # COLOR_BTNFACE

---------------------------------------------------------------------------
(* The pen selection tables of the commentary above IntDrawRectEdge, a row   *)
(* <<LTI, LTO, RBI, RBO>> for each uType from 0000 to 1111. An "x" (don't    *)
(* care) is written x, and "x (n)" is written n, what win95 actually uses.   *)

x == NoLine

\* "Pen selection table for uFlags = 0"
PenSelectionTable ==
    << << x,  x,  x,  x>>, << x, 22,  x, 21>>, << x, 16,  x, 20>>, << x,  x,  x,  x>>,
       << x, 20,  x, 16>>, <<20, 22, 16, 21>>, <<20, 16, 16, 20>>, << x,  x,  x,  x>>,
       << x, 21,  x, 22>>, <<21, 22, 22, 21>>, <<21, 16, 22, 20>>, << x,  x,  x,  x>>,
       << x,  x,  x,  x>>, << x, 22,  x, 21>>, << x, 16,  x, 20>>, << x,  x,  x,  x>> >>

\* "Pen selection table for uFlags = BF_SOFT"
PenSelectionTableSoft ==
    << << x,  x,  x,  x>>, << x, 20,  x, 21>>, << x, 21,  x, 20>>, << x,  x,  x,  x>>,
       << x, 22,  x, 16>>, <<22, 20, 16, 21>>, <<22, 21, 16, 20>>, << x,  x,  x,  x>>,
       << x, 16,  x, 22>>, <<16, 20, 22, 21>>, <<16, 21, 22, 20>>, << x,  x,  x,  x>>,
       << x,  x,  x,  x>>, << x, 20,  x, 21>>, << x, 21,  x, 20>>, << x,  x,  x,  x>> >>

\* the row of a table for the style code of the call, in the order in which
\* IntDrawRectEdge sets its pen colours: LTO, RBO, LTI, RBI
Documented(table) ==
    LET row == table[Low4(uType) + 1]
    IN <<row[2], row[4], row[1], row[3]>>

(* C19: for every 4-bit style code and each of the four slots, the colour    *)
(* IntDrawRectEdge resolves with no palette modifier equals the entry of the *)
(* commentary's pen selection table for uFlags = 0, and the colour it        *)
(* resolves with Soft equals the entry of the table for BF_SOFT: the omit    *)
(* value -1 where the table has "x", the parenthesised value where it has    *)
(* "x (n)".                                                                  *)
C19_DocumentedTables ==
    (ByRect /\ uFlags \cap {BF_MONO, BF_FLAT} = {}) =>
        Resolved = Documented(IF BF_SOFT \in uFlags THEN PenSelectionTableSoft
                              ELSE PenSelectionTable)

\* style 1101 under Soft: the table has "x (20)" and "x (21)" for the outer lines
C19_Witness ==
    /\ ByRect /\ uType = 13 /\ uFlags \cap {BF_MONO, BF_FLAT, BF_SOFT} = {BF_SOFT}
    /\ Resolved = <<COLOR_BTNHIGHLIGHT, COLOR_3DDKSHADOW, NoLine, NoLine>>
    /\ Documented(PenSelectionTableSoft) = <<20, 21, x, x>>
    /\ Documented(PenSelectionTable) = <<22, 21, x, x>>

---------------------------------------------------------------------------
\* the lines of the last call that were drawn with a pen that paints
VisibleLines == SelectSeq(Lines, LAMBDA d : d.pen # "NULL_PEN")

(* C20, as claimed: IntDrawRectEdge issues at most 4 line draws and 1 fill,  *)
(* IntDrawDiagEdge at most 2 line draws and 1 fill, for every input; only    *)
(* the lines drawn with a pen that paints are counted.                       *)
C20_Original ==
    /\ ByRect => Len(VisibleLines) <= 4 /\ Len(Fills) + Len(Polygons) <= 1
    /\ ByDiag => Len(VisibleLines) <= 2 /\ Len(Fills) + Len(Polygons) <= 1

(* C20, amended: IntDrawRectEdge issues at most 8 line draws, an outer and   *)
(* an inner line for each selected side, and 1 fill; IntDrawDiagEdge issues  *)
(* at most 2 line draws and 1 fill, for every input.                         *)
C20_BoundedDrawing ==
    /\ ByRect =>
          /\ Len(Lines) = 2 * Cardinality(uFlags \cap BF_RECT)
          /\ Len(Lines) <= 8
          /\ Len(Fills) <= 1 /\ Len(Polygons) = 0
    /\ ByDiag =>
          /\ Len(Lines) <= 2
          /\ Len(Polygons) <= 1 /\ Len(Fills) = 0
    /\ Called => Len(drawn) = Len(Lines) + Len(Fills) + Len(Polygons)

\* the most a call of the rectangular renderer draws: a fill and eight lines
\* that all paint, on the 3x5 rectangle
C20_Witness ==
    /\ ByRect /\ uType = 10 /\ uFlags = BF_RECT \cup {BF_MIDDLE, BF_SOFT}
    /\ rc0 = Rect(1, 2, 4, 7)
    /\ Len(VisibleLines) = 8
    /\ Len(Fills) = 1
    /\ Len(drawn) = 9

---------------------------------------------------------------------------
\* a call of the last DrawEdge reported failure
SurfaceFailed == Called /\ failed # 0

(* C18: when a surface operation fails, here LineTo, FillRect or Polygon,    *)
(* the renderer reports a distinct surface error, a value other than the     *)
(* TRUE and FALSE of the validity rule, performs no further drawing in that  *)
(* call, and still restores the position, the pen and the brush.             *)
C18_SurfaceError ==
    SurfaceFailed =>
        /\ retval \notin BOOLEAN
        /\ \A k \in (failed + 1)..Len(gdi) : gdi[k].f \notin Drawing
        /\ dc.pos = InitDC.pos /\ dc.pen = InitDC.pen /\ dc.brush = InitDC.brush

---------------------------------------------------------------------------
\* where the outer and the inner line of side s of the rectangle on entry go
OuterSegment(s) ==
    LET l == rc0.left
        t == rc0.top
        r == rc0.right
        b == rc0.bottom
    IN CASE s = BF_TOP -> <<l, t, r, t>>
         [] s = BF_LEFT -> <<l, t, l, b>>
         [] s = BF_BOTTOM -> <<l, b - 1, r, b - 1>>
         [] s = BF_RIGHT -> <<r - 1, t, r - 1, b>>

InnerSegment(s) ==
    LET l == rc0.left
        t == rc0.top
        r == rc0.right
        b == rc0.bottom
    IN CASE s = BF_TOP ->
              <<l + Corner(BF_TOP, BF_LEFT), t + 1, r - Corner(BF_TOP, BF_RIGHT), t + 1>>
         [] s = BF_LEFT ->
              <<l + 1, t + Corner(BF_TOP, BF_LEFT), l + 1, b - Corner(BF_BOTTOM, BF_LEFT)>>
         [] s = BF_BOTTOM ->
              <<l + Corner(BF_BOTTOM, BF_LEFT), b - 2, r - Corner(BF_BOTTOM, BF_RIGHT), b - 2>>
         [] s = BF_RIGHT ->
              <<r - 2, t + Corner(BF_TOP, BF_RIGHT), r - 2, b - Corner(BF_BOTTOM, BF_RIGHT)>>

(* C21, as claimed: in IntDrawRectEdge the outer line of each selected side  *)
(* is immediately followed by the inner line of the same side.               *)
C21_Original ==
    ByRect =>
        \A s \in uFlags \cap BF_RECT :
            \E k \in 1..(Len(Lines) - 1) :
                /\ Segment(Lines[k]) = OuterSegment(s)
                /\ Segment(Lines[k + 1]) = InnerSegment(s)

(* C21, amended: IntDrawRectEdge first draws the outer lines of all selected *)
(* sides, in the order top, left, bottom, right, and after them the inner    *)
(* lines of all selected sides in the same order; a side's outer line is     *)
(* followed at once by its inner line only if it is the only selected side.  *)
C21_OuterEdgeThenInnerEdge ==
    ByRect =>
        LET n == Len(Selected) IN
        /\ Len(Lines) = 2 * n
        /\ \A k \in 1..n :
              /\ Segment(Lines[k]) = OuterSegment(Selected[k])
              /\ Lines[k].color = Resolved[IF Selected[k] \in BF_TOPLEFT THEN 1 ELSE 2]
              /\ Segment(Lines[n + k]) = InnerSegment(Selected[k])
              /\ Lines[n + k].color = Resolved[IF Selected[k] \in BF_TOPLEFT THEN 3 ELSE 4]

\* top and right of the 10x10 square: outer top, outer right, inner top, inner right
C21_Witness ==
    /\ ByRect /\ uType = 6 /\ uFlags = BF_TOPRIGHT
    /\ rc0 = Rect(0, 0, 10, 10)
    /\ Len(Lines) = 4
    /\ Segment(Lines[1]) = <<0, 0, 10, 0>> /\ Lines[1].color = COLOR_BTNSHADOW
    /\ Segment(Lines[2]) = <<9, 0, 9, 10>> /\ Lines[2].color = COLOR_BTNHIGHLIGHT
    /\ Segment(Lines[3]) = <<0, 1, 9, 1>> /\ Lines[3].color = COLOR_BTNHIGHLIGHT
    /\ Segment(Lines[4]) = <<8, 1, 8, 10>> /\ Lines[4].color = COLOR_BTNSHADOW

---------------------------------------------------------------------------
\* the pixels of the rectangle on entry on the row or column of side s that
\* lies depth pixels inward from that side
SidePixels(s, depth) ==
    LET xs == rc0.left..(rc0.right - 1)
        ys == rc0.top..(rc0.bottom - 1)
    IN CASE s = BF_TOP -> {Pt(px, rc0.top + depth) : px \in xs}
         [] s = BF_LEFT -> {Pt(rc0.left + depth, py) : py \in ys}
         [] s = BF_BOTTOM -> {Pt(px, rc0.bottom - 1 - depth) : px \in xs}
         [] s = BF_RIGHT -> {Pt(rc0.right - 1 - depth, py) : py \in ys}

\* line d runs along the row or column of side s, depth pixels inward
RunsAlong(d, s, depth) ==
    CASE s = BF_TOP -> d.from.y = rc0.top + depth /\ d.to.y = rc0.top + depth
      [] s = BF_LEFT -> d.from.x = rc0.left + depth /\ d.to.x = rc0.left + depth
      [] s = BF_BOTTOM -> d.from.y = rc0.bottom - 1 - depth /\ d.to.y = rc0.bottom - 1 - depth
      [] s = BF_RIGHT -> d.from.x = rc0.right - 1 - depth /\ d.to.x = rc0.right - 1 - depth

\* the last pixel a line of one pixel or more paints, the one before its end
LastPixel(d) ==
    Pt(d.to.x - Sgn(d.to.x - d.from.x), d.to.y - Sgn(d.to.y - d.from.y))

\* the first and the last pixel of line d, and so all of a horizontal or
\* vertical line, lie in the rectangle on entry
StaysInside(d) ==
    LineLength(d) > 0 => RectCovers(rc0, d.from) /\ RectCovers(rc0, LastPixel(d))

\* the rectangle on entry has room for an outer and an inner line on each side
TwoByTwo == rc0.right - rc0.left >= 2 /\ rc0.bottom - rc0.top >= 2

(* C22: in IntDrawRectEdge the outer line of each selected side runs along   *)
(* the outermost row or column of that side (y = top, x = left, y = bottom-1, *)
(* x = right-1) and spans the full side, the inner line runs along the row   *)
(* or column one pixel further inward (y = top+1, x = left+1, y = bottom-2,  *)
(* x = right-2), and no line is drawn for a side that is not in the mask.    *)
(* On a rectangle at least 2 wide and 2 high an outer line that paints       *)
(* paints every pixel of its row or column inside the rectangle, and no     *)
(* line leaves the rectangle.                                                *)
C22_LinePlacement ==
    ByRect =>
        /\ Len(Lines) = 2 * Cardinality(uFlags \cap BF_RECT)
        /\ \A s \in uFlags \cap BF_RECT :
              /\ RunsAlong(OuterLine(s), s, 0)
              /\ Segment(OuterLine(s)) = OuterSegment(s)
              /\ RunsAlong(InnerLine(s), s, 1)
              /\ TwoByTwo =>
                    /\ OuterLine(s).pen # "NULL_PEN" =>
                          \A p \in SidePixels(s, 0) : LineCovers(OuterLine(s), p)
                    /\ StaysInside(OuterLine(s))
                    /\ StaysInside(InnerLine(s))

\* left and bottom of the 3x5 rectangle: the outer lines on x = 1 and y = 6,
\* the inner lines on x = 2 and y = 5, and nothing for top and right
C22_Witness ==
    /\ ByRect /\ uType = 9 /\ uFlags = BF_BOTTOMLEFT
    /\ rc0 = Rect(1, 2, 4, 7)
    /\ Len(Lines) = 4
    /\ Segment(OuterLine(BF_LEFT)) = <<1, 2, 1, 7>>
    /\ Segment(OuterLine(BF_BOTTOM)) = <<1, 6, 4, 6>>
    /\ Segment(InnerLine(BF_LEFT)) = <<2, 2, 2, 6>>
    /\ Segment(InnerLine(BF_BOTTOM)) = <<2, 5, 4, 5>>
    /\ \A py \in 2..6 : LineCovers(OuterLine(BF_LEFT), Pt(1, py))
    /\ ~ LineCovers(OuterLine(BF_LEFT), Pt(1, 7))

---------------------------------------------------------------------------
(* C23: for every quadrant whose resolved colour is the omit value -1, no    *)
(* line of that quadrant reaches the surface, its pixels staying as they     *)
(* were, and no colour state of the device context is set from the omit      *)
(* value: no SetDCPenColor is made with the colour of index -1.              *)
C23_OmitSetsNothing ==
    Called =>
        /\ \A k \in 1..Len(Lines) : Lines[k].color = NoLine => ~ Paints(Lines[k])
        /\ \A k \in 1..Len(gdi) : gdi[k].f = "SetDCPenColor" => gdi[k].color # NoLine
        /\ dc.penColor # NoLine

---------------------------------------------------------------------------
\* the last call drew the outer diagonal, then the inner diagonal
TwoDiagonals ==
    /\ Len(drawn) >= 2
    /\ drawn[1].op = "LineTo" /\ drawn[1].color = Resolved[1]
    /\ drawn[2].op = "LineTo" /\ drawn[2].color = Resolved[2]

\* point p is a pixel of the rectangle on entry
InRect0(p) == RectCovers(rc0, p)

\* and after them one polygon in the fill colour, every vertex of which is a
\* pixel of the rectangle on entry
ThenPolygon ==
    /\ Len(drawn) = 3
    /\ drawn[3].op = "Polygon"
    /\ drawn[3].brush = "DC_BRUSH" /\ drawn[3].brushColor = FillColour
    /\ drawn[3].pen = "DC_PEN" /\ drawn[3].color = FillColour
    /\ Len(drawn[3].points) = 4

VerticesInside == \A n \in 1..4 : InRect0(drawn[3].points[n])

(* C24, as claimed: IntDrawDiagEdge draws the outer diagonal first, then the *)
(* inner diagonal, and only then, if Middle is set, fills the polygon with   *)
(* COLOR_BTNFACE (COLOR_WINDOW under Mono); all vertices of the polygon lie  *)
(* in [left, right-1] x [top, bottom-1].                                     *)
C24_Original ==
    ByDiag =>
        /\ TwoDiagonals
        /\ BF_MIDDLE \in uFlags => ThenPolygon /\ VerticesInside
        /\ BF_MIDDLE \notin uFlags => Len(drawn) = 2

(* C24, amended: IntDrawDiagEdge draws the outer diagonal first, then the    *)
(* inner diagonal, and only then, if Middle is set and the combination is    *)
(* valid, fills the polygon with COLOR_BTNFACE (COLOR_WINDOW under Mono),    *)
(* otherwise nothing; all vertices of the polygon lie in                     *)
(* [left, right-1] x [top, bottom-1] when the smaller of width and height    *)
(* exceeds the border thickness.                                             *)
C24_DiagonalOrder ==
    ByDiag =>
        /\ TwoDiagonals
        /\ (BF_MIDDLE \in uFlags /\ retval) =>
              /\ ThenPolygon
              /\ SmallDiam(rc0) > MonoThickness(uType) => VerticesInside
        /\ ~ (BF_MIDDLE \in uFlags /\ retval) => Len(drawn) = 2

\* "ends bottom-right" with Middle on the 10x10 square: two lines, then the
\* triangle (7, 9), (0, 9), (0, 2) at the lower left
C24_Witness ==
    /\ ByDiag /\ uType = 5 /\ uFlags = BF_BOTTOMRIGHT \cup {BF_DIAGONAL, BF_MIDDLE}
    /\ rc0 = Rect(0, 0, 10, 10)
    /\ Len(drawn) = 3
    /\ drawn[1].color = COLOR_3DDKSHADOW /\ drawn[2].color = COLOR_BTNSHADOW
    /\ drawn[3].brushColor = COLOR_BTNFACE
    /\ drawn[3].points = <<Pt(7, 9), Pt(0, 9), Pt(0, 2), Pt(0, 2)>>
    /\ VerticesInside

---------------------------------------------------------------------------
(* C25 *)

\* the last call was a diagonal one under Soft without Mono or Flat
SoftDiagonal == ByDiag /\ BF_SOFT \in uFlags /\ uFlags \cap {BF_MONO, BF_FLAT} = {}

\* the outer and the inner colour are the bottom-right (resp. top-left) Soft
\* table entries of the style
FromSoftRB == Resolved = <<At(RBOuterSoft, TableIndex(uType)), At(RBInnerSoft, TableIndex(uType))>>
FromSoftLT == Resolved = <<At(LTOuterSoft, TableIndex(uType)), At(LTInnerSoft, TableIndex(uType))>>

(* C25 as stated: under Soft (without Mono or Flat) the diagonal renderer    *)
(* takes both colours from the bottom-right tables whenever the orientation  *)
(* includes the bottom or the right side, from the top-left tables otherwise.*)
C25_Original ==
    SoftDiagonal =>
        IF BF_BOTTOM \in uFlags \/ BF_RIGHT \in uFlags THEN FromSoftRB ELSE FromSoftLT

(* C25: under Soft (without Mono or Flat) the diagonal renderer takes both   *)
(* its inner and its outer colour from the bottom-right tables whenever the  *)
(* side mask includes the bottom side, and from the top-left tables          *)
(* otherwise; the right side plays no part in the choice.                    *)
C25_SoftDiagonalTables ==
    SoftDiagonal => IF BF_BOTTOM \in uFlags THEN FromSoftRB ELSE FromSoftLT

\* a Soft top-right diagonal of style 5 is drawn in the top-left colours,
\* which differ from the bottom-right ones
C25_Witness ==
    /\ SoftDiagonal
    /\ uType = 5
    /\ uFlags = {BF_DIAGONAL, BF_SOFT, BF_TOP, BF_RIGHT}
    /\ FromSoftLT
    /\ ~ FromSoftRB

---------------------------------------------------------------------------
(* C26 *)

\* the rectangular renderer returned FALSE; neither Flat nor Mono is set then,
\* and the four colours <<LTO, RBO, LTI, RBI>> come from these tables
RectRejected == ByRect /\ retval = FALSE

RejectedTable == IF BF_SOFT \in uFlags THEN SoftColours(uType) ELSE NormalColours(uType)

\* a line over the segment seg was drawn in colour c with a pen that paints
DrawnIn(seg, c) ==
    \E k \in 1..Len(Lines) :
        /\ Segment(Lines[k]) = seg
        /\ Lines[k].color = c
        /\ Lines[k].pen = "DC_PEN"

\* every line of a selected side whose table colour is not omit is drawn
TableLinesDrawn ==
    \A k \in 1..Len(Selected) :
        LET s == Selected[k]
            o == RejectedTable[IF s \in BF_TOPLEFT THEN 1 ELSE 2]
            i == RejectedTable[IF s \in BF_TOPLEFT THEN 3 ELSE 4]
        IN /\ o # NoLine => DrawnIn(OuterSegment(s), o)
           /\ i # NoLine => DrawnIn(InnerSegment(s), i)

(* C26 as stated: when the rectangular renderer returns FALSE it has still   *)
(* drawn every line whose table colour is not omit and, if Middle was set,   *)
(* has still filled the interior.                                            *)
C26_Original ==
    RectRejected =>
        /\ TableLinesDrawn
        /\ BF_MIDDLE \in uFlags => Len(Fills) = 1

(* C26: an invalid (style, modifier) combination is non-fatal and still      *)
(* renders partially: when the rectangular renderer returns FALSE it has     *)
(* still drawn every line of a selected side whose table colour is not omit, *)
(* but it has filled nothing, whether Middle was set or not.                 *)
C26_PartialRender ==
    RectRejected =>
        /\ TableLinesDrawn
        /\ Len(Fills) = 0
        /\ Len(drawn) = Len(Lines)

\* style 1101 with Middle: FALSE is returned, the four outer lines are drawn
\* in their table colours and the interior is not filled
C26_Witness ==
    /\ RectRejected
    /\ uType = 13
    /\ uFlags = BF_RECT \cup {BF_MIDDLE}
    /\ rc0 = Rect(0, 0, 10, 10)
    /\ Len(VisibleLines) = 4
    /\ DrawnIn(<<0, 0, 10, 0>>, COLOR_3DLIGHT)
    /\ DrawnIn(<<0, 9, 10, 9>>, COLOR_3DDKSHADOW)
    /\ Len(Fills) = 0

---------------------------------------------------------------------------
\* both inner bits (0xC) or both outer bits (0x3) of the style code are set
BothBitsOfAPair == BitAnd(uType, 12) = 12 \/ BitAnd(uType, 3) = 3

(* C27: both renderers return FALSE if and only if neither Flat nor Mono is  *)
(* set and the style code has both inner bits set ((style & 0xC) = 0xC) or   *)
(* both outer bits set ((style & 0x3) = 0x3); in every other case they       *)
(* return TRUE. The value is a function of the style code and of the Flat    *)
(* and Mono bits alone: the rectangle, the side mask and the Soft, Middle,   *)
(* Adjust and Diagonal modifiers play no part.                               *)
C27_ExactValidity ==
    Called =>
        /\ retval \in BOOLEAN
        /\ retval = FALSE <=> (BF_FLAT \notin uFlags /\ BF_MONO \notin uFlags /\ BothBitsOfAPair)

\* style 0111 with Soft, Middle and Adjust on the bottom-left diagonal of the
\* 3x5 rectangle: FALSE, as for any rectangle and side mask
C27_Witness ==
    /\ ByDiag
    /\ uType = 7
    /\ uFlags = BF_BOTTOMLEFT \cup {BF_DIAGONAL, BF_SOFT, BF_MIDDLE, BF_ADJUST}
    /\ rc0 = Rect(1, 2, 4, 7)
    /\ BothBitsOfAPair
    /\ retval = FALSE

---------------------------------------------------------------------------
\* the smaller of the width and the height of the rectangle on entry
MinSide ==
    LET w == rc0.right - rc0.left
        h == rc0.bottom - rc0.top
    IN IF w < h THEN w ELSE h

\* the horizontal and the vertical extent of a line
ExtentX(d) == Abs(d.to.x - d.from.x)

ExtentY(d) == Abs(d.to.y - d.from.y)

(* C28: the two coordinate switches of IntDrawDiagEdge are exhaustive: for   *)
(* each of the 16 combinations of the four side bits, with BF_DIAGONAL set,  *)
(* the first switch assigns the start and the end point of the outer         *)
(* diagonal and the second switch draws the inner diagonal and assigns all   *)
(* four points of the polygon, so that no call draws from the placeholder    *)
(* coordinates or fills a polygon of unassigned points; the horizontal and   *)
(* the vertical extent of the outer diagonal both equal min(width, height).  *)
C28_SwitchesExhaustive ==
    ByDiag =>
        /\ DiagEnds(rc0, uFlags).assigned
        /\ DiagInner(rc0, uType, uFlags).assigned
        /\ Len(Lines) = 2
        /\ \A k \in 1..Len(Polygons) : Len(Polygons[k].points) = 4
        /\ ExtentX(Lines[1]) = Abs(MinSide)
        /\ ExtentY(Lines[1]) = Abs(MinSide)
        /\ ExtentX(Lines[2]) = ExtentY(Lines[2])

\* all four sides on the 3x5 rectangle: the last case of the first switch, an
\* outer diagonal of extent 3 from (1, 6) to (4, 3), and a polygon of four
\* points
C28_Witness ==
    /\ ByDiag
    /\ uType = 5
    /\ uFlags = BF_RECT \cup {BF_DIAGONAL, BF_MIDDLE}
    /\ rc0 = Rect(1, 2, 4, 7)
    /\ MinSide = 3
    /\ Segment(Lines[1]) = <<1, 6, 4, 3>>
    /\ Len(Polygons) = 1
    /\ Len(Polygons[1].points) = 4

---------------------------------------------------------------------------
\* a call of GrayStringA or GrayStringW has returned
GrayCalled == gray.calls > 0

(* C29: IntGrayString (GrayStringA/GrayStringW) restores the text colour and *)
(* the background colour of the target device context to their values at     *)
(* entry on every exit path, success or failure, including the early         *)
(* rejection of nCount = -1 with no output callback.                         *)
C29_ColoursRestored ==
    GrayCalled =>
        /\ gray.hDC.TextColor = gray.entry.TextColor
        /\ gray.hDC.BkColor = gray.entry.BkColor

---------------------------------------------------------------------------
\* a blend state setter has returned
GLCalled == glLast.n > 0

\* a factor the call rejects: one outside the accepted set of its position, or
\* one that needs NV_blend_square on a context without it
BadSource(f) ==
    \/ f \notin SourceFactors
    \/ f \in {"GL_SRC_COLOR", "GL_ONE_MINUS_SRC_COLOR"} /\ ~ ctx.Extensions.NV_blend_square

BadDest(f) ==
    \/ f \notin DestFactors
    \/ f \in {"GL_DST_COLOR", "GL_ONE_MINUS_DST_COLOR"} /\ ~ ctx.Extensions.NV_blend_square

\* the last call had an enum argument that is rejected
RejectedCall ==
    LET a == glLast.args IN
    CASE glLast.f = "BlendFunc" -> BadSource(a[1]) \/ BadDest(a[2])
      [] glLast.f = "BlendFuncSeparateEXT" ->
            BadSource(a[1]) \/ BadDest(a[2]) \/ BadSource(a[3]) \/ BadDest(a[4])
      [] glLast.f = "BlendEquation" -> ~ EquationAccepted(ctx, a[1])
      [] glLast.f = "AlphaFunc" -> a[1] \notin AlphaFuncs
      [] glLast.f = "LogicOp" -> a[1] \notin LogicOps
      [] OTHER -> FALSE

\* the arguments of the last call are what ctx->Color held when it was made
ArgsAreState ==
    LET a == glLast.args
        was == glLast.before
    IN
    CASE glLast.f = "BlendFunc" ->
            /\ was.BlendSrcRGB = a[1] /\ was.BlendSrcA = a[1]
            /\ was.BlendDstRGB = a[2] /\ was.BlendDstA = a[2]
      [] glLast.f = "BlendFuncSeparateEXT" ->
            /\ was.BlendSrcRGB = a[1] /\ was.BlendDstRGB = a[2]
            /\ was.BlendSrcA = a[3] /\ was.BlendDstA = a[4]
      [] glLast.f = "BlendEquation" -> was.BlendEquation = a[1]
      [] glLast.f = "AlphaFunc" -> was.AlphaFunc = a[1] /\ was.AlphaRef = a[2]
      [] glLast.f = "LogicOp" -> was.LogicOp = a[1]
      [] OTHER -> FALSE

(* C30: after any sequence of calls of _mesa_BlendFunc,                      *)
(* _mesa_BlendFuncSeparateEXT, _mesa_BlendEquation, _mesa_AlphaFunc and      *)
(* _mesa_LogicOp, a call whose enum argument is rejected (outside the        *)
(* accepted set, or gated by a disabled extension) records GL_INVALID_ENUM,  *)
(* leaves every field of ctx->Color unchanged and invokes no driver          *)
(* callback; and a call whose accepted arguments equal the current state     *)
(* neither flushes vertices nor invokes a driver callback.                   *)
C30_RejectedOrRedundant ==
    GLCalled =>
        /\ RejectedCall =>
              /\ glLast.error = GL_INVALID_ENUM
              /\ ctx.Color = glLast.before
              /\ glLast.driver = <<>>
        /\ (~ RejectedCall /\ ArgsAreState) =>
              /\ ~ glLast.flushed
              /\ glLast.driver = <<>>
              /\ glLast.error = GL_NO_ERROR

\* the third call, glBlendFunc(GL_ONE, GL_DST_COLOR) without NV_blend_square
\* on a context whose factors an earlier call has changed and whose driver has
\* the callbacks: GL_INVALID_ENUM, and the factors stay
C30_Witness ==
    /\ glLast.n = 3
    /\ glLast.f = "BlendFunc"
    /\ glLast.args = <<"GL_ONE", "GL_DST_COLOR">>
    /\ ~ ctx.Extensions.NV_blend_square
    /\ ctx.Driver = DriverCallbacks
    /\ RejectedCall
    /\ glLast.error = GL_INVALID_ENUM
    /\ glLast.before.BlendSrcA = "GL_SRC_ALPHA_SATURATE"
    /\ ctx.Color.BlendSrcA = "GL_SRC_ALPHA_SATURATE"
    /\ ctx.Color.AlphaRef = 1

====
